---- MODULE Spec2Model ----
(***************************************************************************)
(* Novatale: the LangGraph workflow of graph.py (nodes, conditional edges), *)
(* the node functions of agents.py and graph.py, and the orchestration      *)
(* loop of main.py.                                                         *)
(*                                                                          *)
(* Encoding of Python values:                                               *)
(*   Optional[str]        a string; None is the string None                 *)
(*   Optional[object]     <<>> for None, <<v>> for the object v             *)
(*   Optional[List[...]]  <<>> for None, <<list>> for the list              *)
(*   a key missing from a JSON object is the string Absent                  *)
(***************************************************************************)
EXTENDS Integers, Sequences, FiniteSets, TLC

\* ---------------------------------------------------------------- bounds
MaxChapters == 2
MaxScenes == 2
\* scenes of the longest chapter plan, for the step count of a traversal
MaxPlannedScenes == 20

\* --------------------------------------------------------- Python values
None == "None"
Absent == "Absent"
NoneObj == <<>>
Some(v) == <<v>>
Val(o) == o[1]

\* truthiness of an Optional[str]: neither None nor ""
Truthy(s) == s # None /\ s # ""
\* truthiness of an Optional[List] / Optional[Dict]-as-list
TruthyList(o) == o # NoneObj /\ Val(o) # <<>>

RECURSIVE JoinFrom(_, _)
JoinFrom(parts, i) ==
  IF i > Len(parts) THEN ""
  ELSE IF i = Len(parts) THEN parts[i]
  ELSE parts[i] \o " " \o JoinFrom(parts, i + 1)
\* " ".join(parts)
Join(parts) == JoinFrom(parts, 1)

\* str.strip() on the completions the model draws
Strip(s) ==
  CASE s = " " -> ""
    [] s = " dark " -> "dark"
    [] s = " None " -> "None"
    [] OTHER -> s

\* ------------------------------------------------------------ GraphState
\* data_models.py GraphState; app.invoke({}) starts from the empty dict, whose
\* .get() defaults are these values
EmptyState ==
  [ user_world_concept |-> None, user_character_concept |-> None,
    user_story_premise |-> None, world_details |-> None,
    character_profile |-> NoneObj, overall_plot_outline |-> NoneObj,
    current_chapter_index |-> 0, current_chapter_summary |-> None,
    chapter_scene_outline |-> NoneObj, current_scene_index |-> 0,
    current_scene_goal |-> None, current_scene_prose |-> None,
    completed_chapter_prose |-> <<>>, character_states |-> NoneObj,
    consistency_notes |-> NoneObj, error |-> None, debug_llm_output |-> None ]

\* ------------------------------------------------------- graph.py routing
\* faulty variant: the error check never fires
check_agent_error_never(s) == "continue"

check_agent_error(s) ==
  IF Truthy(s.error) THEN "finalOutput" ELSE "continue"

\* faulty variant: the bounds test admits index = len(outline)
scene_loop_condition_offByOne(s) ==
  IF Truthy(s.error) THEN "saveChapterOutput"
  ELSE IF s.chapter_scene_outline # NoneObj
          /\ s.current_scene_index <= Len(Val(s.chapter_scene_outline))
       THEN "prepareScene"
  ELSE "saveChapterOutput"

scene_loop_condition(s) ==
  IF Truthy(s.error) THEN "saveChapterOutput"
  ELSE IF s.chapter_scene_outline # NoneObj
          /\ s.current_scene_index < Len(Val(s.chapter_scene_outline))
       THEN "prepareScene"
  ELSE IF s.chapter_scene_outline = NoneObj THEN "saveChapterOutput"
  ELSE "saveChapterOutput"

\* faulty variant: the chapterPlanner edge wired to the loop condition without the lambda
planner_edge_noErrorCheck(s) == scene_loop_condition(s)

\* the lambda on the chapterPlanner edge
planner_edge(s) ==
  IF Truthy(s.error) THEN "finalOutput" ELSE scene_loop_condition(s)

\* faulty variant: sceneGenerator wired past the consistency checker
ContinueTarget_skipsChecker(n) ==
  CASE n = "worldBibleAgent" -> "characterBibleAgent"
    [] n = "characterBibleAgent" -> "overallPlotAgent"
    [] n = "overallPlotAgent" -> "prepareChapter"
    [] n = "prepareChapter" -> "chapterPlanner"
    [] n = "prepareScene" -> "sceneGenerator"
    [] n = "sceneGenerator" -> "characterStateUpdater"
    [] n = "consistencyChecker" -> "characterStateUpdater"
    [] n = "characterStateUpdater" -> "accumulateScene"
    [] n = "saveChapterOutput" -> "END"

\* the "continue" target of each add_conditional_edges(..., check_agent_error, ...)
ContinueTarget(n) ==
  CASE n = "worldBibleAgent" -> "characterBibleAgent"
    [] n = "characterBibleAgent" -> "overallPlotAgent"
    [] n = "overallPlotAgent" -> "prepareChapter"
    [] n = "prepareChapter" -> "chapterPlanner"
    [] n = "prepareScene" -> "sceneGenerator"
    [] n = "sceneGenerator" -> "consistencyChecker"
    [] n = "consistencyChecker" -> "characterStateUpdater"
    [] n = "characterStateUpdater" -> "accumulateScene"
    [] n = "saveChapterOutput" -> "END"

\* faulty variant: errors inside the scene sequence wired to the salvage save
NextNode_salvage(n, s) ==
  CASE n = "userInput" -> "worldBibleAgent"
    [] n = "chapterPlanner" -> planner_edge(s)
    [] n = "accumulateScene" -> scene_loop_condition(s)
    [] n = "finalOutput" -> "END"
    [] OTHER -> IF check_agent_error(s) = "finalOutput"
                THEN IF n \in {"prepareScene", "sceneGenerator"}
                     THEN "saveChapterOutput" ELSE "finalOutput"
                ELSE ContinueTarget(n)

\* faulty variant: the edges inside the scene sequence ignore error
NextNode_sceneSequenceContinues(n, s) ==
  CASE n = "userInput" -> "worldBibleAgent"
    [] n = "chapterPlanner" -> planner_edge(s)
    [] n = "accumulateScene" -> scene_loop_condition(s)
    [] n = "finalOutput" -> "END"
    [] n \in {"sceneGenerator", "consistencyChecker", "characterStateUpdater"} ->
         ContinueTarget(n)
    [] OTHER -> IF check_agent_error(s) = "finalOutput" THEN "finalOutput"
                ELSE ContinueTarget(n)

\* the node the engine runs after node n returned state s
NextNode(n, s) ==
  CASE n = "userInput" -> "worldBibleAgent"
    [] n = "chapterPlanner" -> planner_edge(s)
    [] n = "accumulateScene" -> scene_loop_condition(s)
    [] n = "finalOutput" -> "END"
    [] OTHER -> IF check_agent_error(s) = "finalOutput" THEN "finalOutput"
                ELSE ContinueTarget(n)

\* ------------------------------------------------ graph.py helper nodes
\* list[i] for i that does not raise IndexError: a negative i counts from the end
PyIndex(list, i) == IF i >= 0 THEN list[i + 1] ELSE list[Len(list) + i + 1]

\* outline[chapter_idx] in the guard of prepare_chapter_node raises IndexError
prepare_chapter_raises(s) ==
  /\ s.overall_plot_outline # NoneObj
  /\ s.current_chapter_index < 0 - Len(Val(s.overall_plot_outline))

\* faulty variant: the per-chapter prose list is not reset
prepare_chapter_keepsProse(s) ==
  LET idx == s.current_chapter_index
      outline == s.overall_plot_outline
  IN IF outline = NoneObj \/ idx >= Len(Val(outline))
        \/ ~Truthy(PyIndex(Val(outline), idx).summary)
     THEN [s EXCEPT !.error = "Cannot prepare chapter"]
     ELSE [s EXCEPT !.current_chapter_summary = PyIndex(Val(outline), idx).summary,
                    !.chapter_scene_outline = NoneObj,
                    !.current_scene_index = 0,
                    !.current_scene_goal = None,
                    !.current_scene_prose = None,
                    !.consistency_notes = NoneObj,
                    !.error = None]

\* faulty variant: the failure path also clears the scene cursor
prepare_chapter_failureResets(s) ==
  LET idx == s.current_chapter_index
      outline == s.overall_plot_outline
  IN IF outline = NoneObj \/ idx >= Len(Val(outline))
        \/ ~Truthy(PyIndex(Val(outline), idx).summary)
     THEN [s EXCEPT !.error = "Cannot prepare chapter",
                    !.current_scene_index = 0, !.current_scene_prose = None]
     ELSE [s EXCEPT !.current_chapter_summary = PyIndex(Val(outline), idx).summary,
                    !.chapter_scene_outline = NoneObj,
                    !.current_scene_index = 0,
                    !.current_scene_goal = None,
                    !.current_scene_prose = None,
                    !.completed_chapter_prose = <<>>,
                    !.consistency_notes = NoneObj,
                    !.error = None]

\* faulty variant: the scene outline of the incoming state is kept
prepare_chapter_keepsOutline(s) ==
  LET idx == s.current_chapter_index
      outline == s.overall_plot_outline
  IN IF outline = NoneObj \/ idx >= Len(Val(outline))
        \/ ~Truthy(PyIndex(Val(outline), idx).summary)
     THEN [s EXCEPT !.error = "Cannot prepare chapter"]
     ELSE [s EXCEPT !.current_chapter_summary = PyIndex(Val(outline), idx).summary,
                    !.current_scene_index = 0,
                    !.current_scene_goal = None,
                    !.current_scene_prose = None,
                    !.completed_chapter_prose = <<>>,
                    !.consistency_notes = NoneObj,
                    !.error = None]

\* defined on inputs on which the guard does not raise
prepare_chapter_node(s) ==
  LET idx == s.current_chapter_index
      outline == s.overall_plot_outline
  IN IF outline = NoneObj \/ idx >= Len(Val(outline))
        \/ ~Truthy(PyIndex(Val(outline), idx).summary)
     THEN [s EXCEPT !.error = "Cannot prepare chapter"]
     ELSE [s EXCEPT !.current_chapter_summary = PyIndex(Val(outline), idx).summary,
                    !.chapter_scene_outline = NoneObj,
                    !.current_scene_index = 0,
                    !.current_scene_goal = None,
                    !.current_scene_prose = None,
                    !.completed_chapter_prose = <<>>,
                    !.consistency_notes = NoneObj,
                    !.error = None]

\* faulty variant: the title alone is preferred to the plot points
SceneGoal_titleBeforePoints(item) ==
  IF Truthy(item.summary) THEN item.summary
  ELSE IF Truthy(item.title) THEN item.title
  ELSE IF TruthyList(item.plot_points) THEN Join(Val(item.plot_points))
  ELSE IF Truthy(item.scene_setting) THEN "Scene set in: " \o item.scene_setting
  ELSE None

\* the goal prepare_scene_node derives from a SceneOutlineItem; None when no
\* field is usable
SceneGoal(item) ==
  IF Truthy(item.summary) THEN item.summary
  ELSE IF TruthyList(item.plot_points)
       THEN IF Truthy(item.title)
            THEN Join(<<item.title \o ":">> \o Val(item.plot_points))
            ELSE Join(Val(item.plot_points))
  ELSE IF Truthy(item.title) THEN item.title
  ELSE IF Truthy(item.scene_setting) THEN "Scene set in: " \o item.scene_setting
  ELSE None

prepare_scene_node(s) ==
  LET idx == s.current_scene_index
      outline == s.chapter_scene_outline
  IN IF outline = NoneObj \/ idx >= Len(Val(outline))
     THEN [s EXCEPT !.error = "Cannot prepare scene"]
     ELSE IF SceneGoal(Val(outline)[idx + 1]) = None
     THEN [s EXCEPT !.error = "Cannot determine scene goal"]
     ELSE [s EXCEPT !.current_scene_goal = SceneGoal(Val(outline)[idx + 1]),
                    !.current_scene_prose = None]

\* faulty variant: the index advances but the prose is not appended
accumulate_without_append(s) ==
  [s EXCEPT !.current_scene_index = s.current_scene_index + 1,
            !.current_scene_prose = None]

\* faulty variant: the index advances by two
accumulate_skips_a_scene(s) ==
  [s EXCEPT !.completed_chapter_prose =
                IF Truthy(s.current_scene_prose)
                THEN Append(s.completed_chapter_prose, s.current_scene_prose)
                ELSE s.completed_chapter_prose,
            !.current_scene_index = s.current_scene_index + 2,
            !.current_scene_prose = None]

\* faulty variant: the scene goal is appended in place of the prose
accumulate_appends_goal(s) ==
  [s EXCEPT !.completed_chapter_prose =
                IF Truthy(s.current_scene_prose)
                THEN Append(s.completed_chapter_prose, s.current_scene_goal)
                ELSE s.completed_chapter_prose,
            !.current_scene_index = s.current_scene_index + 1,
            !.current_scene_prose = None]

\* faulty variant: an empty prose string is appended too
accumulate_appends_empty(s) ==
  [s EXCEPT !.completed_chapter_prose =
                IF s.current_scene_prose # None
                THEN Append(s.completed_chapter_prose, s.current_scene_prose)
                ELSE s.completed_chapter_prose,
            !.current_scene_index = s.current_scene_index + 1,
            !.current_scene_prose = None]

accumulate_scene_node(s) ==
  [s EXCEPT !.completed_chapter_prose =
                IF Truthy(s.current_scene_prose)
                THEN Append(s.completed_chapter_prose, s.current_scene_prose)
                ELSE s.completed_chapter_prose,
            !.current_scene_index = s.current_scene_index + 1,
            !.current_scene_prose = None]

\* ------------------------------------------------ collaborator outcomes
\* what input() returns for each of the three concept prompts
Concepts == {"", "concept"}

\* the two completion attempts of the World Bible step: the parsed call and,
\* after it failed, the raw-text call (raw = None when that one raises too)
WorldOutcomes ==
  { [ok |-> TRUE, raw |-> None], [ok |-> FALSE, raw |-> None],
    [ok |-> FALSE, raw |-> "raw world text"] }

\* the labelled profile text: per label the text after it on its first line
\* (None: no such line); Fears is given as its ';'-separated segments
GoodProfileText ==
  [ raw |-> "profile text", name |-> "Ava", description |-> "brave",
    backstory |-> "orphan", motivation |-> "justice",
    fears |-> Some(<<"heights", " ", "dark">>) ]
CharacterOutcomes ==
  { [kind |-> "exc", text |-> GoodProfileText],
    [kind |-> "text", text |-> GoodProfileText],
    [kind |-> "text", text |-> [GoodProfileText EXCEPT !.name = None,
                                                      !.raw = "profile text without name"]] }

\* further profile texts, for the node functions in isolation: Fears missing,
\* "none" in several cases, an empty value, padded segments; a required label
\* missing
ProfileTextsAll ==
  { [GoodProfileText EXCEPT !.fears = f] :
      f \in { NoneObj, Some(<<"none">>), Some(<<"NONE">>), Some(<<" None ">>),
              Some(<<"none", " ">>), Some(<<"">>), Some(<<"heights", " ", " dark ">>) } }
  \cup { [GoodProfileText EXCEPT !.name = None, !.raw = "profile text without name"],
         [GoodProfileText EXCEPT !.description = None,
                                 !.raw = "profile text without description"] }
CharacterOutcomesAll ==
  CharacterOutcomes \cup { [kind |-> "text", text |-> x] : x \in ProfileTextsAll }

\* JSON chapter objects a completion may hold
ChapterRawItems ==
  { [title |-> Absent, description |-> "chapter summary", plot_points |-> NoneObj],
    [title |-> "T", description |-> "", plot_points |-> NoneObj],
    [title |-> "T", description |-> Absent, plot_points |-> NoneObj] }

\* JSON scene objects a completion may hold: one with a summary, one with no
\* usable key
SceneRawItems ==
  { [scene_summary |-> "scene summary", scene_goal |-> Absent, description |-> Absent,
     title |-> Absent, location |-> Absent, plot_points |-> NoneObj],
    [scene_summary |-> Absent, scene_goal |-> Absent, description |-> Absent,
     title |-> Absent, location |-> Absent, plot_points |-> NoneObj] }

\* further JSON chapter objects, for the node functions in isolation
ChapterRawItemsAll ==
  ChapterRawItems \cup
  { [title |-> Absent, description |-> Absent, plot_points |-> Some(<<"p1", "p2">>)],
    [title |-> "T", description |-> "chapter summary", plot_points |-> Some(<<"p1", "p2">>)],
    [title |-> Absent, description |-> Absent, plot_points |-> Some(<<>>)] }

\* a JSON scene object with the given keys (Absent: the key is missing)
SceneRaw(summary, title, location, points) ==
  [scene_summary |-> summary, scene_goal |-> Absent, description |-> Absent,
   title |-> title, location |-> location, plot_points |-> points]

\* further JSON scene objects, for the node functions in isolation
SceneRawItemsAll ==
  SceneRawItems \cup
  { SceneRaw(Absent, "Confrontation", "the docks", Some(<<"A meets B", "B reveals secret">>)),
    SceneRaw("", "Confrontation", Absent, Some(<<"A meets B", "B reveals secret">>)),
    SceneRaw("X", "Confrontation", Absent, Some(<<"A meets B", "B reveals secret">>)),
    SceneRaw("", Absent, Absent, Some(<<"A meets B", "B reveals secret">>)),
    SceneRaw("", "Confrontation", "the docks", Some(<<>>)),
    SceneRaw(Absent, "Confrontation", "the docks", NoneObj),
    SceneRaw(Absent, Absent, "the docks", NoneObj),
    SceneRaw(Absent, "Confrontation", Absent, Some(<<"">>)) }

\* a JSON scene object with a summary alias each (Absent: the key is missing,
\* None: the JSON value null)
SceneAliases(summary, goal, description, points) ==
  [scene_summary |-> summary, scene_goal |-> goal, description |-> description,
   title |-> Absent, location |-> Absent, plot_points |-> points]

\* JSON scene objects that carry several of the summary aliases
SceneAliasItems ==
  { SceneAliases("", "goal text", Absent, NoneObj),
    SceneAliases(None, Absent, "description text", NoneObj),
    SceneAliases(Absent, "", "description text", NoneObj),
    SceneAliases(Absent, "goal text", "description text", Some(<<"A meets B">>)),
    SceneAliases(Absent, Absent, "description text", Some(<<"A meets B">>)),
    SceneAliases("scene summary", "goal text", "description text", NoneObj) }

\* all sequences over S of length 0..n
SeqsUpTo(S, n) == UNION { [1..k -> S] : k \in 0..n }

\* the text of a JSON-array completion: exc (the call raises), noarray (no
\* [...] in the text), malformed (json.loads or the item constructor raises),
\* array (a JSON array of objects)
ArrayOutcomes(RawItems, n) ==
  { [kind |-> k, raw |-> "raw " \o k, items |-> <<>>] : k \in {"exc", "noarray", "malformed"} }
  \cup { [kind |-> "array", raw |-> "raw array", items |-> it] : it \in SeqsUpTo(RawItems, n) }

\* the chapterPlanner completions for the node function in isolation: the
\* arrays of the flow, and a one-object array for each further JSON object
SceneArrayOutcomesAll ==
  ArrayOutcomes(SceneRawItems, MaxScenes)
  \cup { [kind |-> "array", raw |-> "raw array", items |-> <<it>>] :
           it \in SceneRawItemsAll \cup SceneAliasItems }

\* the prose the completion returns for the scene at index i
ProseOf(i) ==
  IF i < 5 THEN <<"prose 1", "prose 2", "prose 3", "prose 4", "prose 5">>[i + 1]
  ELSE "prose of a later scene"
ProseOutcomes(i) == {"EXC", "", " ", ProseOf(i)}

\* -------------------------------------------------- agents.py node functions
\* faulty variant: the node prompts even when the three concepts are present
get_user_input_alwaysPrompts(s, w, c, p) ==
  [EmptyState EXCEPT !.user_world_concept = w,
                     !.user_character_concept = c,
                     !.user_story_premise = p]

get_user_input(s, w, c, p) ==
  IF Truthy(s.user_world_concept) /\ Truthy(s.user_character_concept)
     /\ Truthy(s.user_story_premise)
  THEN s
  ELSE [EmptyState EXCEPT !.user_world_concept = w,
                          !.user_character_concept = c,
                          !.user_story_premise = p]

\* faulty variant: the step regenerates the bible it already has
world_bible_agent_node_noSkip(s, o) ==
  IF ~Truthy(s.user_world_concept)
  THEN [s EXCEPT !.error = "User world concept missing."]
  ELSE IF o.ok
  THEN [s EXCEPT !.world_details = "WorldDetails", !.error = None]
  ELSE [s EXCEPT !.error = "World Bible Agent Error",
                 !.world_details = None,
                 !.debug_llm_output =
                     IF Truthy(o.raw) THEN o.raw ELSE s.debug_llm_output]

\* faulty variant: the success path keeps a debug payload too
world_bible_agent_node_debugOnSuccess(s, o) ==
  IF s.world_details # None THEN s
  ELSE IF ~Truthy(s.user_world_concept)
  THEN [s EXCEPT !.error = "User world concept missing."]
  ELSE IF o.ok
  THEN [s EXCEPT !.world_details = "WorldDetails", !.error = None,
                 !.debug_llm_output = "raw world text"]
  ELSE [s EXCEPT !.error = "World Bible Agent Error",
                 !.world_details = None,
                 !.debug_llm_output =
                     IF Truthy(o.raw) THEN o.raw ELSE s.debug_llm_output]

world_bible_agent_node(s, o) ==
  IF s.world_details # None THEN s
  ELSE IF ~Truthy(s.user_world_concept)
  THEN [s EXCEPT !.error = "User world concept missing."]
  ELSE IF o.ok
  THEN [s EXCEPT !.world_details = "WorldDetails", !.error = None]
  ELSE [s EXCEPT !.error = "World Bible Agent Error",
                 !.world_details = None,
                 !.debug_llm_output =
                     IF Truthy(o.raw) THEN o.raw ELSE s.debug_llm_output]

\* str.lower() on the Fears values the model draws
Lower(v) == IF v \in {"NONE", "None"} THEN "none" ELSE v

\* faulty variant: the word "none" is kept as a fear
ParseFears_keepsNone(f) ==
  IF f = NoneObj THEN NoneObj
  ELSE Some(SelectSeq([i \in 1..Len(Val(f)) |-> Strip(Val(f)[i])],
                      LAMBDA x : x # ""))

\* lines 118-121: the fears list parsed from the Fears value
ParseFears(f) ==
  IF f = NoneObj THEN NoneObj
  ELSE IF Len(Val(f)) = 1 /\ Lower(Strip(Val(f)[1])) = "none" THEN NoneObj
  ELSE Some(SelectSeq([i \in 1..Len(Val(f)) |-> Strip(Val(f)[i])],
                      LAMBDA x : x # ""))

\* CharacterProfile(**profile_data) raises unless the four required strings
\* are present
ProfileValid(t) ==
  t.name # None /\ t.description # None /\ t.backstory # None /\ t.motivation # None

\* faulty variant: the success path does not initialise the dynamic state
character_bible_agent_node_noInitialState(s, o) ==
  IF s.character_profile # NoneObj THEN s
  ELSE IF ~Truthy(s.user_character_concept)
  THEN [s EXCEPT !.error = "User character concept missing."]
  ELSE IF o.kind = "text" /\ ProfileValid(o.text)
  THEN [s EXCEPT !.character_profile =
                     Some([ name |-> o.text.name,
                            description |-> o.text.description,
                            backstory |-> o.text.backstory,
                            core_motivation |-> o.text.motivation,
                            fears |-> ParseFears(o.text.fears) ]),
                 !.error = None]
  ELSE [s EXCEPT !.error = "Character Bible Agent Error",
                 !.character_profile = NoneObj,
                 !.character_states = NoneObj,
                 !.debug_llm_output =
                     IF o.kind = "text" /\ o.text.raw # "" THEN o.text.raw
                     ELSE "Could not retrieve raw LLM output."]

character_bible_agent_node(s, o) ==
  IF s.character_profile # NoneObj THEN s
  ELSE IF ~Truthy(s.user_character_concept)
  THEN [s EXCEPT !.error = "User character concept missing."]
  ELSE IF o.kind = "text" /\ ProfileValid(o.text)
  THEN [s EXCEPT !.character_profile =
                     Some([ name |-> o.text.name,
                            description |-> o.text.description,
                            backstory |-> o.text.backstory,
                            core_motivation |-> o.text.motivation,
                            fears |-> ParseFears(o.text.fears) ]),
                 !.character_states =
                     Some([ n \in {o.text.name} |->
                              [mood |-> "neutral", location |-> "Unknown"] ]),
                 !.error = None]
  ELSE [s EXCEPT !.error = "Character Bible Agent Error",
                 !.character_profile = NoneObj,
                 !.character_states = NoneObj,
                 !.debug_llm_output =
                     IF o.kind = "text" /\ o.text.raw # "" THEN o.text.raw
                     ELSE "Could not retrieve raw LLM output."]

\* faulty variant: plot_points replace a description that is present
RepairChapter_overwritesDescription(item) ==
  IF item.plot_points # NoneObj
  THEN [item EXCEPT !.description = Join(Val(item.plot_points))]
  ELSE item

\* lines 166-172: description synthesised from plot_points
RepairChapter(item) ==
  IF item.description = Absent /\ item.plot_points # NoneObj
  THEN [item EXCEPT !.description = Join(Val(item.plot_points))]
  ELSE item

\* ChapterOutlineItem(**item): summary is the required str aliased description
ChapterItemValid(item) == item.description # Absent /\ item.description # None

ChapterItem(item) ==
  [ title |-> IF item.title = Absent THEN None ELSE item.title,
    summary |-> item.description ]

\* the debug payload of the JSON-extracting steps: the raw text, if any
RawOrDefault(o) ==
  IF o.kind # "exc" /\ o.raw # "" THEN o.raw
  ELSE "Could not retrieve raw LLM output."

\* faulty variant: the skip path clears error like the success path does
overall_plot_agent_node_skipClearsError(s, o) ==
  IF s.overall_plot_outline # NoneObj THEN [s EXCEPT !.error = None]
  ELSE IF ~Truthy(s.user_story_premise) \/ s.world_details = None
          \/ s.character_profile = NoneObj
  THEN [s EXCEPT !.error = "Missing data for plot generation."]
  ELSE LET repaired == [i \in 1..Len(o.items) |-> RepairChapter(o.items[i])]
       IN IF o.kind = "array" /\ repaired # <<>>
             /\ \A i \in 1..Len(repaired) : ChapterItemValid(repaired[i])
          THEN [s EXCEPT !.overall_plot_outline =
                             Some([i \in 1..Len(repaired) |-> ChapterItem(repaired[i])]),
                         !.error = None]
          ELSE [s EXCEPT !.error = "Overall Plot Agent Error",
                         !.overall_plot_outline = NoneObj,
                         !.debug_llm_output = RawOrDefault(o)]

overall_plot_agent_node(s, o) ==
  IF s.overall_plot_outline # NoneObj THEN s
  ELSE IF ~Truthy(s.user_story_premise) \/ s.world_details = None
          \/ s.character_profile = NoneObj
  THEN [s EXCEPT !.error = "Missing data for plot generation."]
  ELSE LET repaired == [i \in 1..Len(o.items) |-> RepairChapter(o.items[i])]
       IN IF o.kind = "array" /\ repaired # <<>>
             /\ \A i \in 1..Len(repaired) : ChapterItemValid(repaired[i])
          THEN [s EXCEPT !.overall_plot_outline =
                             Some([i \in 1..Len(repaired) |-> ChapterItem(repaired[i])]),
                         !.error = None]
          ELSE [s EXCEPT !.error = "Overall Plot Agent Error",
                         !.overall_plot_outline = NoneObj,
                         !.debug_llm_output = RawOrDefault(o)]

\* faulty variant: an alias is taken only when its value is usable
RepairScene_skipsEmpty(item) ==
  IF item.scene_summary \notin {Absent, None, ""} THEN item
  ELSE IF item.scene_goal \notin {Absent, None, ""}
  THEN [item EXCEPT !.scene_summary = item.scene_goal]
  ELSE IF item.description \notin {Absent, None, ""}
  THEN [item EXCEPT !.scene_summary = item.description]
  ELSE IF item.plot_points # NoneObj
  THEN [item EXCEPT !.scene_summary = Join(Val(item.plot_points))]
  ELSE item

\* faulty variant: no summary is synthesized from the plot points
RepairScene_noSynthesis(item) ==
  IF item.scene_summary # Absent THEN item
  ELSE IF item.scene_goal # Absent
  THEN [item EXCEPT !.scene_summary = item.scene_goal]
  ELSE IF item.description # Absent
  THEN [item EXCEPT !.scene_summary = item.description]
  ELSE item

\* lines 217-236: scene_summary taken from the first alias present
RepairScene(item) ==
  IF item.scene_summary # Absent THEN item
  ELSE IF item.scene_goal # Absent
  THEN [item EXCEPT !.scene_summary = item.scene_goal]
  ELSE IF item.description # Absent
  THEN [item EXCEPT !.scene_summary = item.description]
  ELSE IF item.plot_points # NoneObj
  THEN [item EXCEPT !.scene_summary = Join(Val(item.plot_points))]
  ELSE item

OrNone(v) == IF v = Absent THEN None ELSE v

\* SceneOutlineItem(**item): every field optional
SceneItem(item) ==
  [ title |-> OrNone(item.title), summary |-> OrNone(item.scene_summary),
    scene_setting |-> OrNone(item.location), plot_points |-> item.plot_points ]

\* faulty variant: an empty array is stored as the scene outline
chapter_planner_acceptsEmpty(s, o) ==
  IF s.chapter_scene_outline # NoneObj THEN s
  ELSE IF ~Truthy(s.current_chapter_summary) \/ s.world_details = None
          \/ s.character_profile = NoneObj
  THEN [s EXCEPT !.error = "Missing data for chapter planning."]
  ELSE IF o.kind = "array"
  THEN [s EXCEPT !.chapter_scene_outline =
                     Some([i \in 1..Len(o.items) |-> SceneItem(RepairScene(o.items[i]))]),
                 !.error = None]
  ELSE [s EXCEPT !.error = "Chapter Planner Agent Error",
                 !.chapter_scene_outline = NoneObj,
                 !.debug_llm_output = RawOrDefault(o)]

chapter_planner_agent_node(s, o) ==
  IF s.chapter_scene_outline # NoneObj THEN s
  ELSE IF ~Truthy(s.current_chapter_summary) \/ s.world_details = None
          \/ s.character_profile = NoneObj
  THEN [s EXCEPT !.error = "Missing data for chapter planning."]
  ELSE IF o.kind = "array" /\ o.items # <<>>
  THEN [s EXCEPT !.chapter_scene_outline =
                     Some([i \in 1..Len(o.items) |-> SceneItem(RepairScene(o.items[i]))]),
                 !.error = None]
  ELSE [s EXCEPT !.error = "Chapter Planner Agent Error",
                 !.chapter_scene_outline = NoneObj,
                 !.debug_llm_output = RawOrDefault(o)]

\* a dict is falsy when None or empty
TruthyDict(d) == d # NoneObj /\ DOMAIN Val(d) # {}

\* a per-character entry of character_states that is not a dict (a state file
\* is only checked to hold a JSON object); it has no .get
NotADict == [mood |-> "<not a dict>", location |-> "<not a dict>"]

\* lines 275-303: the context preparation raises when the main character's
\* entry in character_states has no .get
ContextError(s) ==
  LET name == Val(s.character_profile).name
  IN name \in DOMAIN Val(s.character_states) /\ Val(s.character_states)[name] = NotADict

\* line 369: the debug payload of a failed generation, built from the prompt
PromptDebug == "Failed during generation. Prompt System"

\* faulty variant: a failed generation does not retain the prompt
scene_generator_agent_node_noDebug(s, o) ==
  IF ~Truthy(s.current_scene_goal) \/ s.world_details = None
     \/ s.character_profile = NoneObj \/ ~TruthyDict(s.character_states)
  THEN [s EXCEPT !.error = "Missing required context for scene generation."]
  ELSE IF ContextError(s)
  THEN [s EXCEPT !.error = "Error preparing context for scene generation"]
  ELSE IF o # "EXC" /\ Strip(o) # ""
  THEN [s EXCEPT !.current_scene_prose = Strip(o), !.error = None]
  ELSE [s EXCEPT !.error = "Scene Generator Agent Error",
                 !.current_scene_prose = None]

scene_generator_agent_node(s, o) ==
  IF ~Truthy(s.current_scene_goal) \/ s.world_details = None
     \/ s.character_profile = NoneObj \/ ~TruthyDict(s.character_states)
  THEN [s EXCEPT !.error = "Missing required context for scene generation."]
  ELSE IF ContextError(s)
  THEN [s EXCEPT !.error = "Error preparing context for scene generation"]
  ELSE IF o # "EXC" /\ Strip(o) # ""
  THEN [s EXCEPT !.current_scene_prose = Strip(o), !.error = None]
  ELSE [s EXCEPT !.error = "Scene Generator Agent Error",
                 !.current_scene_prose = None,
                 !.debug_llm_output = PromptDebug]

\* "placeholder contradiction" in scene_prose.lower()
HasContradiction(p) == p = "placeholder contradiction"

\* faulty variant: a noted contradiction is reported as an error
consistency_checker_blocking(s) ==
  IF Truthy(s.current_scene_prose) /\ HasContradiction(s.current_scene_prose)
  THEN [s EXCEPT !.consistency_notes = Some(<<"Placeholder contradiction noted">>),
                 !.error = "Placeholder contradiction noted"]
  ELSE [s EXCEPT !.consistency_notes = Some(<<>>)]

consistency_checker_agent_node(s) ==
  [s EXCEPT !.consistency_notes =
      Some(IF Truthy(s.current_scene_prose) /\ HasContradiction(s.current_scene_prose)
           THEN <<"Placeholder contradiction noted">> ELSE <<>>)]

\* line 397: updated_states.get(char_name, {}).get("mood", ...) is outside any
\* try block and raises when the main character's entry has no .get
character_state_update_raises(s) ==
  /\ Truthy(s.current_scene_prose) /\ s.character_profile # NoneObj
  /\ TruthyDict(s.character_states)
  /\ ContextError(s)

\* faulty variant: the placeholder moves every character
character_state_update_movesCharacter(s) ==
  IF ~Truthy(s.current_scene_prose) \/ s.character_profile = NoneObj
     \/ ~TruthyDict(s.character_states)
  THEN s
  ELSE [s EXCEPT !.character_states =
                     Some([ n \in DOMAIN Val(s.character_states) |->
                              [Val(s.character_states)[n] EXCEPT !.location = "moved"] ]),
                 !.error = None]

\* faulty variant: the placeholder rewrites every character's mood
character_state_update_changesMood(s) ==
  IF ~Truthy(s.current_scene_prose) \/ s.character_profile = NoneObj
     \/ ~TruthyDict(s.character_states)
  THEN s
  ELSE [s EXCEPT !.character_states =
                     Some([ n \in DOMAIN Val(s.character_states) |->
                              [Val(s.character_states)[n] EXCEPT !.mood = "changed"] ]),
                 !.error = None]

character_state_update_agent_node(s) ==
  IF ~Truthy(s.current_scene_prose) \/ s.character_profile = NoneObj
     \/ ~TruthyDict(s.character_states)
  THEN s
  ELSE [s EXCEPT !.character_states = Some(Val(s.character_states)),
                 !.error = None]

\* faulty variant: a failed write is recorded in error
save_chapter_output_reportsFailure(s, proseOk, stateOk) ==
  IF proseOk /\ stateOk THEN s
  ELSE [s EXCEPT !.error = "Save Chapter Output Error"]

\* lines 409-418: each write is in its own try block; a failure is printed
save_chapter_output(s, proseOk, stateOk) == s

\* faulty variant: the reporting node clears the error it reported
final_output_clears_error(s) == [s EXCEPT !.error = None]

final_output_node(s) == s

\* ---------------------------------------------------------------- state
VARIABLES
  state,               \* the GraphState the engine threads through the nodes
  node,                \* the node the engine runs next; "idle" / "END" / "RAISED" outside a run
  lastNode,            \* the node that ran last in this invocation ("none" at entry)
  ran,                 \* the nodes that ran in this invocation
  errorAt,             \* the first node of this invocation that returned error set, or "none"
  calls,               \* chain.invoke calls the last node made
  prompts,             \* input() prompts the last node made
  outcome,             \* what the collaborators handed the last node: <<>> or <<o>>
  steps,               \* nodes the engine has run in the current invocation
  input_state,         \* the dict the last node was called with, as it is after the call
  llm_initialized,     \* config.py: llm_standard and llm_json_strict are not None
  mpc,                 \* position of main.py
  current_chapter_idx, \* main.py's chapter cursor
  last_chapter_states, \* main.py's carried character state
  phase1,              \* main.py's phase1_result_state
  prose_written,       \* the chapter_<n>_scenes.json this invocation wrote: <<>> or <<[n, scenes]>>
  disk_state,          \* chapter_<n>_state.json: <<>> or <<character_states>>
  write_failed,        \* a write of save_chapter_output raised in this run
  chapTraversals,      \* prepareChapter executions of the whole run
  sceneBalance,        \* scenes planned by chapterPlanner minus prepareScene executions
  genErrIdx,           \* scene index at which sceneGenerator set error in this traversal, or -1
  lastGenIdx,          \* scene index sceneGenerator produced prose for last, or -1
  accCount,            \* accumulateScene executions since the chapter started
  savedCount           \* length of the prose list saveChapterOutput persisted in this invocation, or -1

mainVars == <<mpc, current_chapter_idx, last_chapter_states, phase1, llm_initialized>>
diskVars == <<prose_written, disk_state, write_failed>>
auxVars == <<chapTraversals, sceneBalance, genErrIdx, lastGenIdx, accCount, savedCount>>
traceVars == <<lastNode, ran, errorAt, calls, prompts, outcome, input_state, steps>>
vars == <<state, node, traceVars, mainVars, diskVars, auxVars>>

Nodes ==
  { "userInput", "worldBibleAgent", "characterBibleAgent", "overallPlotAgent",
    "prepareChapter", "chapterPlanner", "prepareScene", "sceneGenerator",
    "consistencyChecker", "characterStateUpdater", "accumulateScene",
    "saveChapterOutput", "finalOutput" }

\* chain.invoke call sites reached by each agent on input s under outcome o
world_bible_calls(s, o) ==
  IF s.world_details # None \/ ~Truthy(s.user_world_concept) THEN 0
  ELSE IF o.ok THEN 1 ELSE 2
character_bible_calls(s) ==
  IF s.character_profile # NoneObj \/ ~Truthy(s.user_character_concept) THEN 0 ELSE 1
overall_plot_calls(s) ==
  IF s.overall_plot_outline # NoneObj \/ ~Truthy(s.user_story_premise)
     \/ s.world_details = None \/ s.character_profile = NoneObj
  THEN 0 ELSE 1
chapter_planner_calls(s) ==
  IF s.chapter_scene_outline # NoneObj \/ ~Truthy(s.current_chapter_summary)
     \/ s.world_details = None \/ s.character_profile = NoneObj
  THEN 0 ELSE 1
scene_generator_calls(s) ==
  IF ~Truthy(s.current_scene_goal) \/ s.world_details = None
     \/ s.character_profile = NoneObj \/ ~TruthyDict(s.character_states)
  THEN 0
  ELSE IF ContextError(s) THEN 0 ELSE 1
\* input() prompts of get_user_input
user_input_prompts(s) ==
  IF Truthy(s.user_world_concept) /\ Truthy(s.user_character_concept)
     /\ Truthy(s.user_story_premise)
  THEN 0 ELSE 3

\* a node returned state st after c chain.invoke calls and p prompts, which
\* gave it o; a node that consulted no collaborator was given nothing
Returned(st, c, p, o) ==
  [st |-> st, calls |-> c, prompts |-> p, raised |-> FALSE,
   o |-> IF c > 0 \/ p > 0 THEN Some(o) ELSE NoneObj]
\* save_chapter_output returned state st after its writes went as o says
Wrote(st, o) ==
  [st |-> st, calls |-> 0, prompts |-> 0, raised |-> FALSE, o |-> Some(o)]
\* a node raised on input s: no state is returned
Raised(s) ==
  [st |-> s, calls |-> 0, prompts |-> 0, raised |-> TRUE, o |-> NoneObj]

\* the two writes of save_chapter_output: whether each succeeds
WriteOutcomes == { [proseOk |-> a, stateOk |-> b] : a \in BOOLEAN, b \in BOOLEAN }

\* what node n does on input s with the completion capability initialised,
\* over the collaborators' outcomes
InitializedResults(n, s, profileOutcomes, chapterOutcomes, sceneOutcomes) ==
  CASE n = "userInput" ->
         { Returned(get_user_input(s, w, c, p), 0, user_input_prompts(s), <<w, c, p>>) :
             w \in Concepts, c \in Concepts, p \in Concepts }
    [] n = "worldBibleAgent" ->
         { Returned(world_bible_agent_node(s, o), world_bible_calls(s, o), 0, o) :
             o \in WorldOutcomes }
    [] n = "characterBibleAgent" ->
         { Returned(character_bible_agent_node(s, o), character_bible_calls(s), 0, o) :
             o \in profileOutcomes }
    [] n = "overallPlotAgent" ->
         { Returned(overall_plot_agent_node(s, o), overall_plot_calls(s), 0, o) :
             o \in chapterOutcomes }
    [] n = "prepareChapter" ->
         IF prepare_chapter_raises(s) THEN { Raised(s) }
         ELSE { Returned(prepare_chapter_node(s), 0, 0, "none") }
    [] n = "chapterPlanner" ->
         { Returned(chapter_planner_agent_node(s, o), chapter_planner_calls(s), 0, o) :
             o \in sceneOutcomes }
    [] n = "prepareScene" -> { Returned(prepare_scene_node(s), 0, 0, "none") }
    [] n = "sceneGenerator" ->
         { Returned(scene_generator_agent_node(s, o), scene_generator_calls(s), 0, o) :
             o \in ProseOutcomes(s.current_scene_index) }
    [] n = "consistencyChecker" -> { Returned(consistency_checker_agent_node(s), 0, 0, "none") }
    [] n = "characterStateUpdater" ->
         IF character_state_update_raises(s) THEN { Raised(s) }
         ELSE { Returned(character_state_update_agent_node(s), 0, 0, "none") }
    [] n = "accumulateScene" -> { Returned(accumulate_scene_node(s), 0, 0, "none") }
    [] n = "saveChapterOutput" ->
         { Wrote(save_chapter_output(s, o.proseOk, o.stateOk), o) : o \in WriteOutcomes }
    [] n = "finalOutput" -> { Returned(final_output_node(s), 0, 0, "none") }

\* the outcome under which every chain.invoke of node n raises
ExcOutcome(n) ==
  CASE n = "worldBibleAgent" -> [ok |-> FALSE, raw |-> None]
    [] n = "characterBibleAgent" -> [kind |-> "exc", text |-> GoodProfileText]
    [] n \in {"overallPlotAgent", "chapterPlanner"} ->
         [kind |-> "exc", raw |-> "raw exc", items |-> <<>>]
    [] n = "sceneGenerator" -> "EXC"

\* what node n does on input s without the completion capability
\* (llm_standard / llm_json_strict are None): get_user_input raises RuntimeError
\* when it would prompt; an agent that gets as far as building its chain
\* (outside its try block) raises there or fails inside the try
UninitializedResults(n, s, profileOutcomes, chapterOutcomes, sceneOutcomes) ==
  LET base == InitializedResults(n, s, profileOutcomes, chapterOutcomes, sceneOutcomes)
      needsLLM == { r \in base : r.calls > 0 }
  IN IF n = "userInput"
     THEN IF user_input_prompts(s) > 0 THEN { Raised(s) } ELSE base
     ELSE (base \ needsLLM)
          \cup { [r EXCEPT !.calls = 0] : r \in { x \in needsLLM : x.o = Some(ExcOutcome(n)) } }
          \cup (IF needsLLM # {} THEN { Raised(s) } ELSE {})

\* chapterPlanner completions that plan a chapter into 1..MaxPlannedScenes scenes
LongSceneOutcomes ==
  { [kind |-> "array", raw |-> "raw array",
     items |-> [i \in 1..S |-> SceneRaw("scene summary", Absent, Absent, NoneObj)]] :
      S \in 1..MaxPlannedScenes }

\* the results of node n on input s in an error-free traversal of a chapter of
\* up to MaxPlannedScenes scenes
LongResults(n, s) ==
  { r \in InitializedResults(n, s, CharacterOutcomes,
                             ArrayOutcomes(ChapterRawItems, MaxChapters),
                             LongSceneOutcomes) :
      ~r.raised /\ ~Truthy(r.st.error) }

\* every result of node n on input s, over the collaborators' outcomes
NodeResults(n, s) ==
  IF mpc = "long" THEN LongResults(n, s)
  ELSE IF llm_initialized
  THEN InitializedResults(n, s, CharacterOutcomes,
                          ArrayOutcomes(ChapterRawItems, MaxChapters),
                          ArrayOutcomes(SceneRawItems, MaxScenes))
  ELSE UninitializedResults(n, s, CharacterOutcomes,
                            ArrayOutcomes(ChapterRawItems, MaxChapters),
                            ArrayOutcomes(SceneRawItems, MaxScenes))

\* graph.py lines 173, 181: completed_prose is the input's own list unless that
\* list is empty or None ("or []"), and append() grows it in place
accumulate_scene_input_after(s) ==
  IF Truthy(s.current_scene_prose) /\ s.completed_chapter_prose # <<>>
  THEN [s EXCEPT !.completed_chapter_prose = Append(@, s.current_scene_prose)]
  ELSE s

\* the input dict of node n after the call: the other nodes build their result
\* with {**state, ...} or return the dict itself
InputAfter(n, s) ==
  IF n = "accumulateScene" THEN accumulate_scene_input_after(s) ELSE s

\* main.py line 83: the step limit passed to every app.invoke
recursion_limit == 100

\* the engine runs node n, then evaluates its outgoing edge; an exception
\* raised by the node ends the invocation; a node is run only within the step
\* limit
Run(n, r) ==
  /\ node = n
  /\ steps < recursion_limit
  /\ steps' = steps + 1
  /\ state' = r.st
  /\ node' = IF r.raised THEN "RAISED" ELSE NextNode(n, r.st)
  /\ lastNode' = n
  /\ ran' = ran \cup {n}
  /\ errorAt' = IF errorAt = "none" /\ Truthy(r.st.error) THEN n ELSE errorAt
  /\ calls' = r.calls
  /\ prompts' = r.prompts
  /\ outcome' = r.o
  /\ input_state' = IF r.raised THEN state ELSE InputAfter(n, state)

\* the character state in the chapter_<n>_state.json files an earlier run of the
\* program left in novel_output
StaleStates == Some([ n \in {"Old"} |-> [mood |-> "neutral", location |-> "Unknown"] ])

Init ==
  /\ state = EmptyState
  /\ node = "idle"
  /\ lastNode = "none"
  /\ ran = {}
  /\ errorAt = "none"
  /\ calls = 0
  /\ prompts = 0
  /\ outcome = NoneObj
  /\ input_state = EmptyState
  /\ steps = 0
  /\ llm_initialized \in BOOLEAN
  /\ mpc = "start"
  /\ current_chapter_idx = 0
  /\ last_chapter_states = NoneObj
  /\ phase1 = EmptyState
  /\ prose_written = <<>>
  /\ \E stale \in BOOLEAN :
       disk_state = [n \in 1..MaxChapters |-> IF stale THEN Some(StaleStates) ELSE <<>>]
  /\ write_failed = FALSE
  /\ chapTraversals = 0
  /\ sceneBalance = 0
  /\ genErrIdx = -1
  /\ lastGenIdx = -1
  /\ accCount = 0
  /\ savedCount = -1

\* ----------------------------------------------------------- graph nodes
UserInput ==
  /\ \E r \in NodeResults("userInput", state) : Run("userInput", r)
  /\ UNCHANGED <<mainVars, diskVars, auxVars>>

WorldBibleAgent ==
  /\ \E r \in NodeResults("worldBibleAgent", state) : Run("worldBibleAgent", r)
  /\ UNCHANGED <<mainVars, diskVars, auxVars>>

CharacterBibleAgent ==
  /\ \E r \in NodeResults("characterBibleAgent", state) : Run("characterBibleAgent", r)
  /\ UNCHANGED <<mainVars, diskVars, auxVars>>

OverallPlotAgent ==
  /\ \E r \in NodeResults("overallPlotAgent", state) : Run("overallPlotAgent", r)
  /\ UNCHANGED <<mainVars, diskVars, auxVars>>

PrepareChapter ==
  /\ \E r \in NodeResults("prepareChapter", state) : Run("prepareChapter", r)
  /\ chapTraversals' = chapTraversals + 1
  /\ genErrIdx' = -1
  /\ lastGenIdx' = -1
  /\ accCount' = 0
  /\ UNCHANGED <<mainVars, diskVars, sceneBalance, savedCount>>

ChapterPlanner ==
  /\ \E r \in NodeResults("chapterPlanner", state) :
       /\ Run("chapterPlanner", r)
       /\ sceneBalance' = IF r.st.chapter_scene_outline # NoneObj
                          THEN sceneBalance + Len(Val(r.st.chapter_scene_outline))
                          ELSE sceneBalance
  /\ UNCHANGED <<mainVars, diskVars, chapTraversals, genErrIdx, lastGenIdx, accCount, savedCount>>

PrepareScene ==
  /\ \E r \in NodeResults("prepareScene", state) : Run("prepareScene", r)
  /\ sceneBalance' = sceneBalance - 1
  /\ UNCHANGED <<mainVars, diskVars, chapTraversals, genErrIdx, lastGenIdx, accCount, savedCount>>

SceneGenerator ==
  /\ \E r \in NodeResults("sceneGenerator", state) :
       /\ Run("sceneGenerator", r)
       /\ IF Truthy(r.st.error)
          THEN genErrIdx' = state.current_scene_index /\ UNCHANGED lastGenIdx
          ELSE lastGenIdx' = state.current_scene_index /\ UNCHANGED genErrIdx
  /\ UNCHANGED <<mainVars, diskVars, chapTraversals, sceneBalance, accCount, savedCount>>

ConsistencyChecker ==
  /\ \E r \in NodeResults("consistencyChecker", state) : Run("consistencyChecker", r)
  /\ UNCHANGED <<mainVars, diskVars, auxVars>>

CharacterStateUpdater ==
  /\ \E r \in NodeResults("characterStateUpdater", state) : Run("characterStateUpdater", r)
  /\ UNCHANGED <<mainVars, diskVars, auxVars>>

AccumulateScene ==
  /\ \E r \in NodeResults("accumulateScene", state) : Run("accumulateScene", r)
  /\ accCount' = accCount + 1
  /\ UNCHANGED <<mainVars, diskVars, chapTraversals, sceneBalance, genErrIdx, lastGenIdx,
                 savedCount>>

\* save_chapter_output with its two writes: chapter_<n>_scenes.json and
\* chapter_<n>_state.json, each of which may raise IOError
SaveChapterOutput ==
  /\ \E r \in NodeResults("saveChapterOutput", state) :
       LET n == state.current_chapter_index + 1
       IN /\ Run("saveChapterOutput", r)
          /\ prose_written' = IF Val(r.o).proseOk
                              THEN Some([n |-> n, scenes |-> state.completed_chapter_prose])
                              ELSE prose_written
          /\ disk_state' = IF Val(r.o).stateOk
                           THEN [disk_state EXCEPT ![n] = Some(state.character_states)]
                           ELSE disk_state
          /\ write_failed' = (write_failed \/ ~Val(r.o).proseOk \/ ~Val(r.o).stateOk)
  /\ savedCount' = Len(state.completed_chapter_prose)
  /\ UNCHANGED <<mainVars, chapTraversals, sceneBalance, genErrIdx, lastGenIdx, accCount>>

FinalOutput ==
  /\ \E r \in NodeResults("finalOutput", state) : Run("finalOutput", r)
  /\ UNCHANGED <<mainVars, diskVars, auxVars>>

\* ------------------------------------------------------------- main.py
\* app.invoke(initial): the engine enters at the entry point
Invoke(initial) ==
  /\ state' = initial
  /\ node' = "userInput"
  /\ lastNode' = "none"
  /\ ran' = {}
  /\ errorAt' = "none"
  /\ calls' = 0
  /\ prompts' = 0
  /\ outcome' = NoneObj
  /\ input_state' = EmptyState
  /\ steps' = 0
  /\ savedCount' = -1
  /\ prose_written' = <<>>
  /\ genErrIdx' = -1
  /\ lastGenIdx' = -1
  /\ accCount' = 0

\* lines 64-70: exit unless both LLM instances were initialised
CheckPrerequisites ==
  /\ mpc = "start"
  /\ mpc' = IF llm_initialized THEN "phase1" ELSE "exit_error"
  /\ UNCHANGED <<state, node, traceVars, current_chapter_idx, last_chapter_states,
                 phase1, llm_initialized, diskVars, auxVars>>

\* lines 86-93
Phase1Invoke ==
  /\ mpc = "phase1"
  /\ Invoke(EmptyState)
  /\ mpc' = "phase1_wait"
  /\ UNCHANGED <<current_chapter_idx, last_chapter_states, phase1, llm_initialized,
                 disk_state, write_failed, chapTraversals, sceneBalance>>

\* faulty variant: an invocation that returned error set does not stop the loop
chapter_failed_ignoresError(raised, final_state) == raised

\* lines 182-205: the loop breaks when app.invoke raised or returned error set
chapter_failed(raised, final_state) == raised \/ Truthy(final_state.error)

\* lines 96-137; an exception out of app.invoke exits as well
Phase1Return ==
  /\ mpc = "phase1_wait"
  /\ node \in {"END", "RAISED"}
  /\ node' = "idle"
  /\ phase1' = state
  /\ IF node = "RAISED" \/ Truthy(state.error)
     THEN mpc' = "exit_error" /\ UNCHANGED last_chapter_states
     ELSE IF state.world_details = None \/ state.character_profile = NoneObj
             \/ ~TruthyDict(state.character_states)
             \/ ~TruthyList(state.overall_plot_outline)
     THEN mpc' = "exit_error" /\ UNCHANGED last_chapter_states
     ELSE mpc' = "loop" /\ last_chapter_states' = state.character_states
  /\ current_chapter_idx' = 0
  /\ UNCHANGED <<state, traceVars, llm_initialized, diskVars, auxVars>>

\* faulty variant: the file is never read
load_previous_chapter_state_ignoresFile(chapter_index) == NoneObj

\* faulty variant: the file read is the one numbered after the chapter to start
load_previous_chapter_state_nextFile(chapter_index) ==
  IF chapter_index <= 0 THEN NoneObj
  ELSE IF chapter_index + 1 > MaxChapters THEN NoneObj
  ELSE IF disk_state[chapter_index + 1] = <<>> THEN NoneObj
  ELSE Val(disk_state[chapter_index + 1])

\* load_previous_chapter_state(chapter_index); a file that cannot be read or
\* parsed is treated like a missing one
load_previous_chapter_state(chapter_index) ==
  IF chapter_index <= 0 THEN NoneObj
  ELSE IF disk_state[chapter_index] = <<>> THEN NoneObj
  ELSE Val(disk_state[chapter_index])

\* lines 157-180
chapter_initial_state(states) ==
  [EmptyState EXCEPT !.world_details = phase1.world_details,
                     !.character_profile = phase1.character_profile,
                     !.overall_plot_outline = phase1.overall_plot_outline,
                     !.current_chapter_index = current_chapter_idx,
                     !.character_states = states,
                     !.user_world_concept = phase1.user_world_concept,
                     !.user_character_concept = phase1.user_character_concept,
                     !.user_story_premise = phase1.user_story_premise]

\* lines 140-186 (loop head to app.invoke) and the loop's exit at line 140
ChapterInvoke ==
  /\ mpc = "loop"
  /\ IF current_chapter_idx < Len(Val(phase1.overall_plot_outline))
     THEN LET loaded == load_previous_chapter_state(current_chapter_idx)
              states == IF current_chapter_idx > 0 /\ loaded # NoneObj
                        THEN loaded ELSE last_chapter_states
          IN /\ last_chapter_states' = states
             /\ Invoke(chapter_initial_state(states))
             /\ mpc' = "chapter_wait"
     ELSE /\ mpc' = "exit_done"
          /\ UNCHANGED <<state, node, traceVars, last_chapter_states,
                         savedCount, prose_written, genErrIdx, lastGenIdx, accCount>>
  /\ UNCHANGED <<current_chapter_idx, phase1, llm_initialized, disk_state, write_failed,
                 chapTraversals, sceneBalance>>

\* lines 188-208 and 219-221
ChapterReturn ==
  /\ mpc = "chapter_wait"
  /\ node \in {"END", "RAISED"}
  /\ node' = "idle"
  /\ IF chapter_failed(node = "RAISED", state)
     THEN mpc' = "exit_error" /\ UNCHANGED <<last_chapter_states, current_chapter_idx>>
     ELSE /\ last_chapter_states' = state.character_states
          /\ current_chapter_idx' = current_chapter_idx + 1
          /\ mpc' = IF current_chapter_idx + 1 < Len(Val(phase1.overall_plot_outline))
                    THEN "ask" ELSE "loop"
  /\ UNCHANGED <<state, traceVars, phase1, llm_initialized, diskVars, auxVars>>

\* lines 209-218: input("Generate Chapter ...? (y/n)"), EOFError included
AskUser ==
  /\ mpc = "ask"
  /\ \E answer \in {"y", "n", "EOF"} :
       mpc' = IF answer = "y" THEN "loop" ELSE "exit_stopped"
  /\ UNCHANGED <<state, node, traceVars, current_chapter_idx, last_chapter_states,
                 phase1, llm_initialized, diskVars, auxVars>>

Next ==
  \/ UserInput \/ WorldBibleAgent \/ CharacterBibleAgent \/ OverallPlotAgent
  \/ PrepareChapter \/ ChapterPlanner \/ PrepareScene \/ SceneGenerator
  \/ ConsistencyChecker \/ CharacterStateUpdater \/ AccumulateScene
  \/ SaveChapterOutput \/ FinalOutput
  \/ CheckPrerequisites \/ Phase1Invoke \/ Phase1Return \/ ChapterInvoke \/ ChapterReturn \/ AskUser

Spec == Init /\ [][Next]_vars

\* the engine and main.py run to completion: no step waits on another thread
FairSpec == Spec /\ WF_vars(Next)

\* ------------------------------------------- the node functions in isolation
\* the bibles and per-chapter context as Phase 1 and prepareChapter leave them
WithBibles(s) ==
  [s EXCEPT !.user_world_concept = "concept",
            !.user_character_concept = "concept",
            !.user_story_premise = "concept",
            !.world_details = "WorldDetails",
            !.character_profile =
                Some([ name |-> "Ava", description |-> "brave", backstory |-> "orphan",
                       core_motivation |-> "justice", fears |-> NoneObj ]),
            !.character_states =
                Some([ n \in {"Ava"} |-> [mood |-> "neutral", location |-> "Unknown"] ]),
            !.current_chapter_summary = "chapter summary",
            !.current_scene_goal = "scene summary"]

\* every result of node n on input s, over the further JSON objects too
NodeResultsAll(n, s) ==
  IF llm_initialized
  THEN InitializedResults(n, s, CharacterOutcomesAll,
                          ArrayOutcomes(ChapterRawItemsAll, MaxChapters),
                          SceneArrayOutcomesAll)
  ELSE UninitializedResults(n, s, CharacterOutcomesAll,
                            ArrayOutcomes(ChapterRawItemsAll, MaxChapters),
                            SceneArrayOutcomesAll)

\* the SceneOutlineItem objects chapterPlanner can store
ValidatedScenes == { SceneItem(RepairScene(r)) : r \in SceneRawItemsAll }
ValidatedFlowScenes == { SceneItem(RepairScene(r)) : r \in SceneRawItems }

\* Optional[List[SceneOutlineItem]] values handed to a node
InputSceneOutlines ==
  {NoneObj, Some(<<>>)} \cup { Some(<<i>>) : i \in ValidatedScenes }
  \cup { Some(<<i, j>>) : i \in ValidatedFlowScenes, j \in ValidatedFlowScenes }

\* (overall_plot_outline, current_chapter_index) pairs handed to a node
InputChapters ==
  { <<NoneObj, 0>>,
    <<Some(<<[title |-> None, summary |-> "chapter summary"]>>), 0>>,
    <<Some(<<[title |-> None, summary |-> "chapter summary"]>>), 1>>,
    <<Some(<<[title |-> "T", summary |-> ""]>>), 0>>,
    <<Some(<<[title |-> None, summary |-> "chapter summary"]>>), -1>>,
    <<Some(<<[title |-> None, summary |-> "chapter summary"]>>), -2>> }

\* (chapter_scene_outline, (overall_plot_outline, current_chapter_index)): a
\* scene outline is only ever present in a chapter that prepareChapter accepted
InputOutlines ==
  { <<NoneObj, ch>> : ch \in InputChapters }
  \cup { <<so, <<Some(<<[title |-> None, summary |-> "chapter summary"]>>), 0>> >> :
           so \in InputSceneOutlines \ {NoneObj} }

\* states whose main character's entry in character_states is not a dict, as
\* a chapter state file written by hand can supply
BadStateInputs ==
  { [WithBibles(EmptyState) EXCEPT
        !.character_states = Some([ n \in {"Ava"} |-> NotADict ]),
        !.current_scene_prose = pr,
        !.error = e,
        !.debug_llm_output = IF e = None THEN None ELSE "earlier raw output"] :
      e \in {None, "earlier error"}, pr \in {None, "prose 1"} }

\* states as the World Bible step leaves them: the concepts and the world, no
\* profile yet
AfterWorldBibleInputs ==
  { [EmptyState EXCEPT !.user_world_concept = "concept",
                       !.user_character_concept = "concept",
                       !.user_story_premise = "concept",
                       !.world_details = "WorldDetails",
                       !.error = e,
                       !.debug_llm_output = IF e = None THEN None ELSE "earlier raw output"] :
      e \in {None, "earlier error"} }

InputStates ==
  BadStateInputs \cup AfterWorldBibleInputs \cup
  { LET base == [EmptyState EXCEPT !.error = e,
                                   !.debug_llm_output =
                                       IF e = None THEN None ELSE "earlier raw output",
                                   !.chapter_scene_outline = ol[1],
                                   !.current_scene_index = i,
                                   !.current_scene_prose = pr,
                                   !.completed_chapter_prose = cp,
                                   !.overall_plot_outline = ol[2][1],
                                   !.current_chapter_index = ol[2][2]]
    IN IF b THEN WithBibles(base) ELSE base :
    b \in BOOLEAN, e \in {None, "earlier error"}, ol \in InputOutlines,
    i \in 0..MaxScenes,
    pr \in {None, "", "prose 1", "placeholder contradiction"},
    cp \in {<<>>, <<"prose 1">>} }

NodeInit ==
  /\ state \in InputStates
  /\ node \in Nodes
  /\ lastNode = "none"
  /\ ran = {}
  /\ errorAt = "none"
  /\ calls = 0
  /\ prompts = 0
  /\ outcome = NoneObj
  /\ input_state = EmptyState
  /\ steps = 0
  /\ llm_initialized \in BOOLEAN
  /\ mpc = "unit"
  /\ current_chapter_idx = 0
  /\ last_chapter_states = NoneObj
  /\ phase1 = EmptyState
  /\ prose_written = <<>>
  /\ disk_state = [n \in 1..MaxChapters |-> <<>>]
  /\ write_failed = FALSE
  /\ chapTraversals = 0
  /\ sceneBalance = 0
  /\ genErrIdx = -1
  /\ lastGenIdx = -1
  /\ accCount = 0
  /\ savedCount = -1

\* one node function applied to the drawn state, then its outgoing edge
NodeStep ==
  /\ mpc = "unit"
  /\ \E r \in NodeResultsAll(node, state) : Run(node, r)
  /\ mpc' = "unit_done"
  /\ UNCHANGED <<current_chapter_idx, last_chapter_states, phase1, llm_initialized,
                 diskVars, auxVars>>

NodeSpec == NodeInit /\ [][NodeStep]_vars

\* --------------------------------------------- a resumed chapter invocation
\* results of an earlier Phase 1 that a caller kept: bibles and an outline of
\* 1..MaxChapters chapters, with or without the three user concepts
PreviousResults ==
  { [WithBibles(EmptyState) EXCEPT
        !.user_world_concept = w, !.user_character_concept = c,
        !.user_story_premise = p,
        !.current_chapter_summary = None, !.current_scene_goal = None,
        !.overall_plot_outline =
            Some([i \in 1..k |-> [title |-> None, summary |-> "chapter summary"]])] :
      w \in {None, "concept"}, c \in {None, "concept"}, p \in {None, "concept"},
      k \in 1..MaxChapters }

\* the chapter_scene_outline a caller puts in the initial state: None as
\* main.py does, or a scene outline it kept from an earlier chapter
StaleScene ==
  [title |-> None, summary |-> "stale scene", scene_setting |-> None,
   plot_points |-> NoneObj]
SuppliedSceneOutlines == {NoneObj, Some(<<StaleScene>>)}

\* app.invoke(chapter_initial_state) by a caller that kept an earlier Phase 1
\* result and starts at a chapter index of its choice
ResumeInit ==
  /\ phase1 \in PreviousResults
  /\ current_chapter_idx \in 0..(Len(Val(phase1.overall_plot_outline)) - 1)
  /\ last_chapter_states = phase1.character_states
  /\ \E so \in SuppliedSceneOutlines :
       state = [chapter_initial_state(last_chapter_states)
                  EXCEPT !.chapter_scene_outline = so]
  /\ node = "userInput"
  /\ lastNode = "none"
  /\ ran = {}
  /\ errorAt = "none"
  /\ calls = 0
  /\ prompts = 0
  /\ outcome = NoneObj
  /\ input_state = EmptyState
  /\ steps = 0
  /\ llm_initialized = TRUE
  /\ mpc = "resume"
  /\ prose_written = <<>>
  /\ disk_state = [n \in 1..MaxChapters |-> <<>>]
  /\ write_failed = FALSE
  /\ chapTraversals = 0
  /\ sceneBalance = 0
  /\ genErrIdx = -1
  /\ lastGenIdx = -1
  /\ accCount = 0
  /\ savedCount = -1

ResumeNext ==
  \/ UserInput \/ WorldBibleAgent \/ CharacterBibleAgent \/ OverallPlotAgent
  \/ PrepareChapter \/ ChapterPlanner \/ PrepareScene \/ SceneGenerator
  \/ ConsistencyChecker \/ CharacterStateUpdater \/ AccumulateScene
  \/ SaveChapterOutput \/ FinalOutput

ResumeSpec == ResumeInit /\ [][ResumeNext]_vars

\* ------------------------------------- an error-free traversal of a long chapter
\* app.invoke(chapter_initial_state, config=runtime_config) for a chapter that
\* the planner breaks into 1..MaxPlannedScenes scenes, every node succeeding
LongInit ==
  /\ phase1 \in { p \in PreviousResults :
                     /\ Truthy(p.user_world_concept)
                     /\ Truthy(p.user_character_concept)
                     /\ Truthy(p.user_story_premise) }
  /\ current_chapter_idx \in 0..(Len(Val(phase1.overall_plot_outline)) - 1)
  /\ last_chapter_states = phase1.character_states
  /\ state = chapter_initial_state(last_chapter_states)
  /\ node = "userInput"
  /\ lastNode = "none"
  /\ ran = {}
  /\ errorAt = "none"
  /\ calls = 0
  /\ prompts = 0
  /\ outcome = NoneObj
  /\ input_state = EmptyState
  /\ steps = 0
  /\ llm_initialized = TRUE
  /\ mpc = "long"
  /\ prose_written = <<>>
  /\ disk_state = [n \in 1..MaxChapters |-> <<>>]
  /\ write_failed = FALSE
  /\ chapTraversals = 0
  /\ sceneBalance = 0
  /\ genErrIdx = -1
  /\ lastGenIdx = -1
  /\ accCount = 0
  /\ savedCount = -1

\* the engine stops an invocation that needs a step beyond the limit: app.invoke
\* raises GraphRecursionError
GraphRecursionError ==
  /\ node \in Nodes
  /\ steps >= recursion_limit
  /\ node' = "RAISED"
  /\ UNCHANGED <<state, traceVars, mainVars, diskVars, auxVars>>

LongNext ==
  \/ UserInput \/ WorldBibleAgent \/ CharacterBibleAgent \/ OverallPlotAgent
  \/ PrepareChapter \/ ChapterPlanner \/ PrepareScene \/ SceneGenerator
  \/ ConsistencyChecker \/ CharacterStateUpdater \/ AccumulateScene
  \/ SaveChapterOutput \/ GraphRecursionError

LongChapterSpec == LongInit /\ [][LongNext]_vars

\* ------------------------------------------------------------ properties
\* C1 (as claimed): when sceneGenerator set error at scene index k, the invocation
\* does not end before saveChapterOutput ran and persisted exactly the k
\* accumulated scenes.
C1_SalvageOnGeneratorError ==
  (node = "END" /\ genErrIdx >= 0) =>
     /\ "saveChapterOutput" \in ran
     /\ savedCount = genErrIdx

\* C2 (as claimed): whenever the edge after chapterPlanner or after accumulateScene
\* is evaluated with error set, the next node is saveChapterOutput.
C2_ErrorAlwaysRoutesToSave ==
  (lastNode \in {"chapterPlanner", "accumulateScene"} /\ Truthy(state.error))
     => node = "saveChapterOutput"

\* C2 (amended): with error set, the edge after accumulateScene leads to
\* saveChapterOutput and the edge after chapterPlanner leads to finalOutput.
C2_ErrorRouting ==
  Truthy(state.error) =>
     /\ lastNode = "accumulateScene" => node = "saveChapterOutput"
     /\ lastNode = "chapterPlanner" => node = "finalOutput"

C2_Witness ==
  lastNode = "chapterPlanner" /\ Truthy(state.error) /\ node = "finalOutput"

\* C3: once prepareChapter has run in an invocation, the length of
\* completed_chapter_prose equals current_scene_index, and both equal the number
\* of accumulateScene executions since the chapter started.
C3_SceneAccumulation ==
  "prepareChapter" \in ran =>
     /\ Len(state.completed_chapter_prose) = state.current_scene_index
     /\ state.current_scene_index = accCount

C3_Witness ==
  /\ lastNode = "accumulateScene"
  /\ accCount = 2
  /\ Len(state.completed_chapter_prose) = 2
  /\ state.current_scene_index = 2

\* C4 (as claimed): a run that processed every chapter performed exactly K chapter
\* traversals and as many scene traversals as scenes were planned, and ended
\* after the last chapter's save with error unset.
C4_ExactlyKChapterTraversals ==
  mpc = "exit_done" =>
     /\ chapTraversals = Len(Val(phase1.overall_plot_outline))
     /\ sceneBalance = 0
     /\ lastNode = "saveChapterOutput"
     /\ ~Truthy(state.error)

ShortCircuitNodes ==
  { "worldBibleAgent", "characterBibleAgent", "overallPlotAgent", "prepareChapter",
    "prepareScene", "sceneGenerator", "characterStateUpdater", "saveChapterOutput" }

NominalSuccessor(n) ==
  CASE n = "worldBibleAgent" -> "characterBibleAgent"
    [] n = "characterBibleAgent" -> "overallPlotAgent"
    [] n = "overallPlotAgent" -> "prepareChapter"
    [] n = "prepareChapter" -> "chapterPlanner"
    [] n = "prepareScene" -> "sceneGenerator"
    [] n = "sceneGenerator" -> "consistencyChecker"
    [] n = "characterStateUpdater" -> "accumulateScene"
    [] n = "saveChapterOutput" -> "END"

\* C5: after each of the listed steps the next node is finalOutput when error is
\* set and the nominal successor otherwise; once one of them has set error, only
\* finalOutput runs before the invocation ends.
C5_UniformErrorShortCircuit ==
  /\ (lastNode \in ShortCircuitNodes /\ node # "idle") =>
        node = IF Truthy(state.error) THEN "finalOutput" ELSE NominalSuccessor(lastNode)
  /\ errorAt \in ShortCircuitNodes =>
        /\ node \in {"finalOutput", "END", "idle"}
        /\ lastNode \in {errorAt, "finalOutput"}

C5_Witness ==
  errorAt = "sceneGenerator" /\ lastNode = "finalOutput" /\ node = "END"

\* C6: when worldBibleAgent set error, the next node is finalOutput,
\* characterBibleAgent and overallPlotAgent do not run in that invocation, and
\* character_profile and overall_plot_outline stay unset up to the returned state.
C6_WorldBibleErrorShortCircuit ==
  errorAt = "worldBibleAgent" =>
     /\ node \in {"finalOutput", "END", "idle"}
     /\ lastNode = "worldBibleAgent" => node = "finalOutput"
     /\ ran \cap {"characterBibleAgent", "overallPlotAgent"} = {}
     /\ state.character_profile = NoneObj
     /\ state.overall_plot_outline = NoneObj

C6_Witness ==
  errorAt = "worldBibleAgent" /\ node = "END" /\ Truthy(state.error)

\* C7 (as claimed): when prepareScene cannot derive a goal, the next node is
\* saveChapterOutput.
C7_DerivationErrorRoutesToSave ==
  (lastNode = "prepareScene" /\ state.error = "Cannot determine scene goal")
     => node = "saveChapterOutput"

C9_LoopContinuation ==
  (lastNode \in {"chapterPlanner", "accumulateScene"} /\ node # "RAISED"
   /\ ~Truthy(state.error)) =>
     IF state.chapter_scene_outline # NoneObj
        /\ state.current_scene_index < Len(Val(state.chapter_scene_outline))
     THEN node = "prepareScene"
     ELSE node = "saveChapterOutput"

C9_Witness ==
  /\ lastNode = "accumulateScene"
  /\ ~Truthy(state.error)
  /\ state.chapter_scene_outline = NoneObj
  /\ node = "saveChapterOutput"

\* C10: a node changes current_scene_index only as accumulateScene, by exactly
\* one and after sceneGenerator produced the scene at the old index, or as
\* prepareChapter, to 0; a successful prepareChapter leaves it 0.
C10_SceneCursorDiscipline ==
  [][ /\ (node \in Nodes /\ state'.current_scene_index # state.current_scene_index) =>
           \/ /\ node = "accumulateScene"
              /\ state'.current_scene_index = state.current_scene_index + 1
              /\ lastGenIdx = state.current_scene_index
           \/ /\ node = "prepareChapter"
              /\ state'.current_scene_index = 0
      /\ (node = "prepareChapter" /\ ~Truthy(state'.error)) =>
           state'.current_scene_index = 0 ]_vars

C10_Witness ==
  /\ lastNode = "accumulateScene"
  /\ state.current_scene_index = 2
  /\ lastGenIdx = 1

\* C11: within a run of main.py, no step (node, invocation or return) changes
\* world_details, character_profile or overall_plot_outline once it is non-null.
C11_BibleImmutability ==
  [][ /\ state.world_details # None => state'.world_details = state.world_details
      /\ state.character_profile # NoneObj =>
            state'.character_profile = state.character_profile
      /\ state.overall_plot_outline # NoneObj =>
            state'.overall_plot_outline = state.overall_plot_outline ]_vars

C11_Witness ==
  /\ mpc = "chapter_wait"
  /\ errorAt = "sceneGenerator"
  /\ "worldBibleAgent" \in ran
  /\ state.world_details # None
  /\ state.character_profile # NoneObj
  /\ state.overall_plot_outline # NoneObj

\* C12: the World Bible, Character Bible and Overall Plot steps, entered with
\* their own output field populated, return a state equal to the input in every
\* field, make no completion call, and return the same state when applied again
\* under any completion outcome.
C12_IdempotentSkip ==
  [][ /\ (node = "worldBibleAgent" /\ state.world_details # None) =>
            /\ state' = state /\ calls' = 0 /\ node' # "RAISED"
            /\ \A o \in WorldOutcomes : world_bible_agent_node(state', o) = state'
      /\ (node = "characterBibleAgent" /\ state.character_profile # NoneObj) =>
            /\ state' = state /\ calls' = 0 /\ node' # "RAISED"
            /\ \A o \in CharacterOutcomes : character_bible_agent_node(state', o) = state'
      /\ (node = "overallPlotAgent" /\ state.overall_plot_outline # NoneObj) =>
            /\ state' = state /\ calls' = 0 /\ node' # "RAISED"
            /\ \A o \in ArrayOutcomes(ChapterRawItemsAll, MaxChapters) :
                  overall_plot_agent_node(state', o) = state' ]_vars

C12_Witness ==
  /\ mpc = "unit_done"
  /\ lastNode = "overallPlotAgent"
  /\ state.overall_plot_outline # NoneObj
  /\ state.error = "earlier error"
  /\ state.debug_llm_output = "earlier raw output"
  /\ calls = 0
  /\ outcome = NoneObj

Phase1Nodes ==
  {"userInput", "worldBibleAgent", "characterBibleAgent", "overallPlotAgent"}

\* the resumed invocation prompts for nothing and calls no completion in the
\* Phase 1 nodes, keeps the supplied bibles and outline, and goes on to
\* prepareChapter at the supplied chapter index
ResumeBypass ==
  /\ lastNode \in Phase1Nodes => (calls = 0 /\ prompts = 0)
  /\ state.world_details = phase1.world_details
  /\ state.character_profile = phase1.character_profile
  /\ state.overall_plot_outline = phase1.overall_plot_outline
  /\ lastNode = "overallPlotAgent" => node = "prepareChapter"
  /\ lastNode \in Phase1Nodes => state.current_chapter_index = current_chapter_idx
  /\ node = "END" => "prepareChapter" \in ran

\* C13 (as claimed): an invocation whose initial state supplies bibles, outline,
\* chapter index and character_states bypasses Phase 1.
C13_ResumeFromBiblesAlone == mpc = "resume" => ResumeBypass

\* C13 (amended): it does so when the initial state also supplies the three
\* non-empty user concepts.
C13_ResumeBypassesPhase1 ==
  (mpc = "resume" /\ Truthy(phase1.user_world_concept)
   /\ Truthy(phase1.user_character_concept) /\ Truthy(phase1.user_story_premise))
     => ResumeBypass

C13_Witness ==
  /\ mpc = "resume"
  /\ Truthy(phase1.user_world_concept)
  /\ lastNode = "prepareChapter"
  /\ ~Truthy(state.error)
  /\ state.current_chapter_index = 1
  /\ ran = Phase1Nodes \cup {"prepareChapter"}

\* C14 (as claimed): the character_states handed to the invocation of a chapter
\* after the first is always the content of the previous chapter's state file.
C14_AlwaysFromArtifact ==
  [][ (mpc = "loop" /\ mpc' = "chapter_wait" /\ current_chapter_idx > 0) =>
        /\ disk_state[current_chapter_idx] # <<>>
        /\ state'.character_states = Val(disk_state[current_chapter_idx]) ]_vars

\* C14 (amended): it is the content of the previous chapter's state file when
\* that file exists, and otherwise the character_states the previous invocation
\* returned.
C14_ArtifactOrInMemory ==
  [][ (mpc = "loop" /\ mpc' = "chapter_wait" /\ current_chapter_idx > 0) =>
        state'.character_states =
           IF disk_state[current_chapter_idx] # <<>>
           THEN Val(disk_state[current_chapter_idx])
           ELSE state.character_states ]_vars

C14_Witness ==
  /\ mpc = "chapter_wait"
  /\ current_chapter_idx = 1
  /\ lastNode = "none"
  /\ disk_state[1] = Some(StaleStates)
  /\ state.character_states = StaleStates

\* C15 (as claimed): every node function returns a state on every input state
\* and every collaborator outcome, the missing completion capability included;
\* none raises.
C15_TotalStepContract == mpc = "unit_done" => node # "RAISED"

\* C16: saveChapterOutput returns its input state unchanged whichever of its
\* writes fail, the state file is written whenever its own write succeeds, a
\* failed write leaves the file as it was, and the invocation then ends at END.
C16_PersistenceErrorsSwallowed ==
  [][ node = "saveChapterOutput" =>
        LET n == state.current_chapter_index + 1
        IN /\ state' = state
           /\ node' = "END"
           /\ disk_state'[n] = IF Val(outcome').stateOk THEN Some(state.character_states)
                               ELSE disk_state[n]
           /\ prose_written' = IF Val(outcome').proseOk
                               THEN Some([n |-> n, scenes |-> state.completed_chapter_prose])
                               ELSE prose_written ]_vars

C16_Witness ==
  /\ lastNode = "saveChapterOutput"
  /\ node = "END"
  /\ outcome = Some([proseOk |-> FALSE, stateOk |-> TRUE])
  /\ prose_written = <<>>
  /\ disk_state[state.current_chapter_index + 1] = Some(state.character_states)
  /\ ~Truthy(state.error)

\* C17: consistencyChecker changes no field but consistency_notes, so error
\* leaves it as it entered, and entered with error unset it is followed by
\* characterStateUpdater whatever notes it wrote.
C17_CheckerAdvisoryOnly ==
  [][ node = "consistencyChecker" =>
        /\ node' # "RAISED"
        /\ state'.error = state.error
        /\ state' = [state EXCEPT !.consistency_notes = state'.consistency_notes]
        /\ ~Truthy(state.error) => node' = "characterStateUpdater" ]_vars

C17_Witness ==
  /\ mpc = "unit_done"
  /\ lastNode = "consistencyChecker"
  /\ state.consistency_notes = Some(<<"Placeholder contradiction noted">>)
  /\ ~Truthy(state.error)
  /\ node = "characterStateUpdater"

\* C18: for a scene item at a valid index, prepareScene stores as goal the
\* summary if non-empty; else, if the plot points are non-empty, the title with
\* ':' (when there is a title) and the space-joined plot points; else the title;
\* else "Scene set in: " and the setting; else it sets error.
C18_GoalDerivationPrecedence ==
  (mpc = "unit_done" /\ lastNode = "prepareScene"
   /\ state.chapter_scene_outline # NoneObj
   /\ state.current_scene_index < Len(Val(state.chapter_scene_outline))) =>
     LET item == Val(state.chapter_scene_outline)[state.current_scene_index + 1]
         goal == state.current_scene_goal
         points == IF item.plot_points = NoneObj THEN <<>> ELSE Val(item.plot_points)
     IN /\ Truthy(item.summary) => goal = item.summary
        /\ (~Truthy(item.summary) /\ points # <<>>) =>
              goal = (IF Truthy(item.title) THEN item.title \o ": " ELSE "") \o Join(points)
        /\ (~Truthy(item.summary) /\ points = <<>> /\ Truthy(item.title)) =>
              goal = item.title
        /\ (~Truthy(item.summary) /\ points = <<>> /\ ~Truthy(item.title)
            /\ Truthy(item.scene_setting)) =>
              goal = "Scene set in: " \o item.scene_setting
        /\ (~Truthy(item.summary) /\ points = <<>> /\ ~Truthy(item.title)
            /\ ~Truthy(item.scene_setting)) =>
              state.error = "Cannot determine scene goal"
        /\ (~Truthy(item.summary) /\ item.title = "Confrontation"
            /\ points = <<"A meets B", "B reveals secret">>) =>
              goal = "Confrontation: A meets B B reveals secret"
        /\ (item.summary = "X" /\ points # <<>>) => goal = "X"

C18_Witness ==
  /\ mpc = "unit_done"
  /\ lastNode = "prepareScene"
  /\ state.chapter_scene_outline # NoneObj
  /\ state.current_scene_index < Len(Val(state.chapter_scene_outline))
  /\ Val(state.chapter_scene_outline)[state.current_scene_index + 1].summary = ""
  /\ state.current_scene_goal = "Confrontation: A meets B B reveals secret"

C20_NonEmptySummaryRequired ==
  (mpc = "unit_done" /\ lastNode = "overallPlotAgent" /\ calls = 1) =>
     LET o == Val(outcome)
         summaryOf(item) ==
           IF item.description # Absent THEN item.description
           ELSE IF item.plot_points # NoneObj THEN Join(Val(item.plot_points))
           ELSE Absent
         allNonEmpty ==
           /\ o.kind = "array" /\ o.items # <<>>
           /\ \A i \in 1..Len(o.items) : summaryOf(o.items[i]) \notin {Absent, ""}
     IN IF allNonEmpty
        THEN state.overall_plot_outline # NoneObj /\ ~Truthy(state.error)
        ELSE state.overall_plot_outline = NoneObj /\ Truthy(state.error)

\* ------------------------------------------------------------ C21 .. C30
\* the steps that call the completion capability
AgentNodes ==
  { "worldBibleAgent", "characterBibleAgent", "overallPlotAgent", "chapterPlanner",
    "sceneGenerator" }

\* C21 (as claimed): no agent step calls the completion capability more than
\* once in one execution, and when the output of a JSON-extracting step fails
\* parsing or validation the debug payload is the raw text of that one call.
C21_NoAutomaticRetry ==
  lastNode \in AgentNodes =>
    /\ calls <= 1
    /\ (lastNode \in {"overallPlotAgent", "chapterPlanner"} /\ calls = 1
        /\ Truthy(state.error) /\ Val(outcome).kind # "exc")
         => state.debug_llm_output = Val(outcome).raw

\* C22: a Character Bible execution that does not skip either stores the
\* profile with character_states exactly {profile.name: {mood: "neutral",
\* location: "Unknown"}} and error unset (the text carries the four required
\* labels), or, on every failure path including a missing character concept,
\* returns error set with character_profile and character_states both unset.
C22_CharacterBibleOutcome ==
  [][(node = "characterBibleAgent" /\ node' # "RAISED"
      /\ state.character_profile = NoneObj) =>
       LET succeeded ==
             /\ outcome' # NoneObj
             /\ Val(outcome').kind = "text"
             /\ Val(outcome').text.name # None
             /\ Val(outcome').text.description # None
             /\ Val(outcome').text.backstory # None
             /\ Val(outcome').text.motivation # None
       IN IF succeeded
          THEN /\ state'.character_profile # NoneObj
               /\ Val(state'.character_profile).name = Val(outcome').text.name
               /\ state'.character_states =
                    Some([ n \in {Val(state'.character_profile).name} |->
                             [mood |-> "neutral", location |-> "Unknown"] ])
               /\ state'.error = None
          ELSE /\ Truthy(state'.error)
               /\ state'.character_profile = NoneObj
               /\ state'.character_states = NoneObj]_vars

C22_Witness ==
  /\ lastNode = "characterBibleAgent"
  /\ calls = 1
  /\ state.error = None
  /\ state.character_profile # NoneObj
  /\ state.character_states =
       Some([ n \in {"Ava"} |-> [mood |-> "neutral", location |-> "Unknown"] ])

\* the failure path of C22 on a missing character concept
C22_MissingConceptWitness ==
  /\ lastNode = "characterBibleAgent"
  /\ calls = 0
  /\ state.error = "User character concept missing."
  /\ state.character_profile = NoneObj
  /\ state.character_states = NoneObj

\* the Scene Generator's paths on its input state
SceneContextMissing(s) ==
  \/ s.current_scene_goal \in {None, ""} \/ s.world_details = None
  \/ s.character_profile = NoneObj
  \/ s.character_states = NoneObj

\* C23 (as claimed): on every failure path of the Scene Generator (missing
\* required context, error while preparing context, completion failure, empty
\* prose) the output has error set and debug_llm_output holds the prompt text;
\* on success current_scene_prose is non-empty and error is cleared.
C23_PromptRetainedOnEveryFailure ==
  [][(mpc = "unit" /\ node = "sceneGenerator" /\ node' # "RAISED") =>
       IF outcome' # NoneObj /\ Val(outcome') \notin {"EXC", "", " "}
       THEN state'.current_scene_prose \notin {None, ""} /\ state'.error = None
       ELSE Truthy(state'.error) /\ state'.debug_llm_output = PromptDebug]_vars

\* C23 (amended): a completion failure or empty prose gives error set,
\* current_scene_prose unset and debug_llm_output holding the prompt text;
\* missing context or an error while preparing context gives error set and
\* every other field, debug_llm_output included, as in the input; on success
\* current_scene_prose is the non-empty stripped prose and error is cleared.
C23_SceneGeneratorOutcome ==
  [][(mpc = "unit" /\ node = "sceneGenerator" /\ node' # "RAISED") =>
       IF SceneContextMissing(state) \/ ContextError(state)
       THEN /\ Truthy(state'.error)
            /\ outcome' = NoneObj /\ calls' = 0
            /\ state' = [state EXCEPT !.error = state'.error]
       ELSE IF Val(outcome') \notin {"EXC", "", " "}
       THEN /\ state'.current_scene_prose \notin {None, ""}
            /\ state' = [state EXCEPT !.current_scene_prose = Val(outcome'),
                                      !.error = None]
       ELSE /\ Truthy(state'.error)
            /\ state' = [state EXCEPT !.error = state'.error,
                                      !.current_scene_prose = None,
                                      !.debug_llm_output = PromptDebug]]_vars

\* missing context after an earlier step left a debug payload: error is set and
\* the payload is still the earlier one
C23_Witness ==
  /\ mpc = "unit_done"
  /\ lastNode = "sceneGenerator"
  /\ calls = 0
  /\ state.error = "Missing required context for scene generation."
  /\ state.debug_llm_output = "earlier raw output"

\* an error while preparing context leaves no prompt text either
C23_ContextErrorWitness ==
  /\ mpc = "unit_done"
  /\ lastNode = "sceneGenerator"
  /\ state.error = "Error preparing context for scene generation"
  /\ state.debug_llm_output = None

\* C24: with an outline present, the chapter index in range and a non-empty
\* summary, prepareChapter sets current_chapter_summary from the item, sets
\* current_scene_index to 0 and completed_chapter_prose to empty, unsets
\* chapter_scene_outline, current_scene_goal, current_scene_prose,
\* consistency_notes and error, and leaves every other field unchanged.
C24_PrepareChapterSuccess ==
  [][(mpc = "unit" /\ node = "prepareChapter"
      /\ state.overall_plot_outline # NoneObj
      /\ state.current_chapter_index >= 0
      /\ state.current_chapter_index < Len(Val(state.overall_plot_outline))
      /\ Val(state.overall_plot_outline)[state.current_chapter_index + 1].summary
           \notin {None, ""}) =>
       state' =
         [state EXCEPT
            !.current_chapter_summary =
                Val(state.overall_plot_outline)[state.current_chapter_index + 1].summary,
            !.current_scene_index = 0,
            !.completed_chapter_prose = <<>>,
            !.chapter_scene_outline = NoneObj,
            !.current_scene_goal = None,
            !.current_scene_prose = None,
            !.consistency_notes = NoneObj,
            !.error = None]]_vars

C24_Witness ==
  /\ mpc = "unit_done"
  /\ lastNode = "prepareChapter"
  /\ state.overall_plot_outline # NoneObj
  /\ state.current_chapter_index = 0
  /\ state.current_chapter_summary = "chapter summary"
  /\ state.current_scene_index = 0
  /\ state.completed_chapter_prose = <<>>
  /\ state.chapter_scene_outline = NoneObj
  /\ state.error = None
  /\ state.world_details = "WorldDetails"

\* C25 (as claimed): when the outline is missing, the chapter index is not
\* valid (index >= length, or negative) or the item's summary is empty,
\* prepareChapter returns error set and every other field as in the input, and
\* the traversal goes to finalOutput without running chapterPlanner.
C25_PrepareChapterFailure ==
  [][(mpc = "unit" /\ node = "prepareChapter"
      /\ \/ state.overall_plot_outline = NoneObj
         \/ state.current_chapter_index < 0
         \/ state.current_chapter_index >= Len(Val(state.overall_plot_outline))
         \/ Val(state.overall_plot_outline)[state.current_chapter_index + 1].summary
              \in {None, ""}) =>
       /\ Truthy(state'.error)
       /\ state' = [state EXCEPT !.error = state'.error]
       /\ node' = "finalOutput"]_vars

\* C26: accumulateScene never changes error; it appends current_scene_prose to
\* completed_chapter_prose exactly when that prose is non-empty, adds 1 to
\* current_scene_index in both cases, unsets current_scene_prose and leaves
\* every other field unchanged.
C26_AccumulateSceneEffect ==
  [][(mpc = "unit" /\ node = "accumulateScene") =>
       /\ node' # "RAISED"
       /\ state'.error = state.error
       /\ state' =
            [state EXCEPT
               !.completed_chapter_prose =
                   IF state.current_scene_prose \in {None, ""} THEN @
                   ELSE @ \o <<state.current_scene_prose>>,
               !.current_scene_index = @ + 1,
               !.current_scene_prose = None]]_vars

\* the prose was appended while an earlier error stayed as it was
C26_Witness ==
  /\ mpc = "unit_done"
  /\ lastNode = "accumulateScene"
  /\ state.completed_chapter_prose = <<"prose 1", "placeholder contradiction">>
  /\ state.current_scene_index = 2
  /\ state.current_scene_prose = None
  /\ state.error = "earlier error"

\* C27: whenever the Character State Updater returns, the character_states it
\* returns is equal by value to the input mapping; when scene prose, profile or dynamic state is missing
\* it returns the input state unchanged, without setting error.
C27_UpdaterPassThrough ==
  [][(mpc = "unit" /\ node = "characterStateUpdater" /\ node' # "RAISED") =>
       /\ state'.character_states = state.character_states
       /\ (state.current_scene_prose \in {None, ""}
           \/ state.character_profile = NoneObj
           \/ state.character_states = NoneObj) => state' = state]_vars

C27_Witness ==
  /\ mpc = "unit_done"
  /\ lastNode = "characterStateUpdater"
  /\ state.current_scene_prose = "prose 1"
  /\ state.character_profile # NoneObj
  /\ state.character_states =
       Some([ n \in {"Ava"} |-> [mood |-> "neutral", location |-> "Unknown"] ])

\* C28: when the Character Bible text carries the Name, Description, Backstory
\* and Motivation labels the step succeeds with or without a Fears line; a
\* missing Fears line or the value "none" in any letter case gives fears =
\* null, any other value gives the list of its trimmed non-empty
\* ';'-separated segments; a missing Name label makes the step fail with error
\* set.
C28_LabelParserTolerance ==
  (mpc = "unit_done" /\ lastNode = "characterBibleAgent" /\ calls = 1
   /\ Val(outcome).kind = "text") =>
     LET t == Val(outcome).text
         isNone(f) == Len(f) = 1 /\ Strip(f[1]) \in {"none", "None", "NONE"}
         segments(f) == SelectSeq([i \in 1..Len(f) |-> Strip(f[i])], LAMBDA x : x # "")
     IN /\ (t.name # None /\ t.description # None /\ t.backstory # None
            /\ t.motivation # None) =>
              /\ state.error = None
              /\ state.character_profile # NoneObj
              /\ Val(state.character_profile).fears =
                   IF t.fears = NoneObj THEN NoneObj
                   ELSE IF isNone(Val(t.fears)) THEN NoneObj
                   ELSE Some(segments(Val(t.fears)))
        /\ t.name = None =>
              Truthy(state.error) /\ state.character_profile = NoneObj

\* "NONE" on the Fears line gave a profile without fears
C28_Witness ==
  /\ mpc = "unit_done"
  /\ lastNode = "characterBibleAgent"
  /\ calls = 1
  /\ Val(outcome).kind = "text"
  /\ Val(outcome).text.fears = Some(<<"NONE">>)
  /\ state.error = None
  /\ state.character_profile # NoneObj
  /\ Val(state.character_profile).fears = NoneObj

\* a padded list on the Fears line gave its trimmed non-empty segments
C28_ListWitness ==
  /\ mpc = "unit_done"
  /\ lastNode = "characterBibleAgent"
  /\ calls = 1
  /\ state.character_profile # NoneObj
  /\ Val(state.character_profile).fears = Some(<<"heights", "dark">>)

C30_NoInPlaceMutation ==
  [][(mpc = "unit" /\ node \in Nodes) =>
       /\ input_state' = state
       /\ node = "accumulateScene" =>
            Len(input_state'.completed_chapter_prose) = Len(state.completed_chapter_prose)]_vars

\* ------------------------------------------------------------ C31 .. C40
\* C31: saveChapterOutput for chapter index i stores character_states under
\* chapter number i+1, and the load before the traversal of chapter index i+1
\* reads the artifact numbered i+1: when the write at the end of chapter index
\* i succeeded, the mapping handed to chapter index i+1 is the mapping saved.
C31_CheckpointRoundTrip ==
  [][ (mpc = "loop" /\ mpc' = "chapter_wait" /\ current_chapter_idx > 0
       /\ lastNode = "saveChapterOutput" /\ Val(outcome).stateOk) =>
        /\ state.current_chapter_index + 1 = current_chapter_idx
        /\ disk_state[current_chapter_idx] = Some(state.character_states)
        /\ state'.character_states = state.character_states
        /\ state'.current_chapter_index = current_chapter_idx ]_vars

\* chapter index 1 started from the mapping chapter index 0 saved as number 1,
\* while the artifact numbered 2 still holds an earlier run's mapping
C31_Witness ==
  /\ mpc = "chapter_wait"
  /\ current_chapter_idx = 1
  /\ lastNode = "none"
  /\ disk_state[1] = Some(state.character_states)
  /\ disk_state[2] = Some(StaleStates)
  /\ state.character_states # StaleStates
  /\ state.character_states # NoneObj

\* C32: one node runs at a time, and whenever sceneGenerator is about to run
\* for scene index i > 0 the prose of scenes 0..i-1 has been accumulated:
\* completed_chapter_prose has exactly i entries, the last being the prose
\* generated for scene i-1, and the scene generated last was scene i-1.
C32_SerializedSceneContinuity ==
  /\ node \in Nodes \cup {"idle", "END", "RAISED"}
  /\ (node = "sceneGenerator" /\ state.current_scene_index > 0) =>
       LET i == state.current_scene_index
       IN /\ Len(state.completed_chapter_prose) = i
          /\ state.completed_chapter_prose[i] = ProseOf(i - 1)
          /\ \A k \in 1..i : state.completed_chapter_prose[k] = ProseOf(k - 1)
          /\ lastGenIdx = i - 1
  /\ (node = "sceneGenerator" /\ state.current_scene_index = 0) =>
       state.completed_chapter_prose = <<>> /\ lastGenIdx = -1

C32_Witness ==
  /\ node = "sceneGenerator"
  /\ state.current_scene_index = 1
  /\ state.completed_chapter_prose = <<ProseOf(0)>>
  /\ lastGenIdx = 0

\* C33: error is unset whenever accumulateScene or saveChapterOutput is about
\* to run and when the loop condition is evaluated after accumulateScene, so
\* the error branch of scene_loop_condition is not taken after accumulateScene
\* and the edge from saveChapterOutput to finalOutput is not taken.
C33_SalvageBranchDead ==
  /\ node \in {"accumulateScene", "saveChapterOutput"} => state.error \in {None, ""}
  /\ lastNode = "accumulateScene" =>
       /\ state.error \in {None, ""}
       /\ node = (IF state.current_scene_index < Len(Val(state.chapter_scene_outline))
                  THEN "prepareScene" ELSE "saveChapterOutput")
  /\ lastNode = "saveChapterOutput" => node \in {"END", "idle"}

\* the loop condition sent the traversal to the save with error unset
C33_Witness ==
  /\ lastNode = "accumulateScene"
  /\ node = "saveChapterOutput"
  /\ state.error = None
  /\ Len(state.completed_chapter_prose) = 2

\* C34: whenever saveChapterOutput is about to run, chapter_scene_outline is a
\* non-empty list, completed_chapter_prose has as many entries as the outline
\* and as current_scene_index, and its i-th entry is the prose generated for
\* the i-th scene; the scenes artifact it writes therefore never holds zero or
\* only part of the chapter's scenes.
C34_CompleteChapterAtSave ==
  /\ node = "saveChapterOutput" =>
       /\ state.chapter_scene_outline # NoneObj
       /\ Len(Val(state.chapter_scene_outline)) >= 1
       /\ Len(state.completed_chapter_prose) = Len(Val(state.chapter_scene_outline))
       /\ state.current_scene_index = Len(Val(state.chapter_scene_outline))
       /\ \A k \in 1..Len(state.completed_chapter_prose) :
            state.completed_chapter_prose[k] = ProseOf(k - 1)
       /\ accCount = Len(Val(state.chapter_scene_outline))
  /\ prose_written # <<>> =>
       /\ Val(prose_written).scenes # <<>>
       /\ Len(Val(prose_written).scenes) = Len(Val(state.chapter_scene_outline))

C34_Witness ==
  /\ lastNode = "saveChapterOutput"
  /\ prose_written # <<>>
  /\ Val(prose_written).scenes = <<ProseOf(0), ProseOf(1)>>
  /\ Len(Val(state.chapter_scene_outline)) = 2

\* C35: the loop of main.py starts chapter index 0 first and chapter index
\* i+1 only after the traversal of chapter index i ended with error unset;
\* once a traversal ended with error set or raised, the loop is left and no
\* further traversal is started.
C35_StopsAtFirstFailingChapter ==
  [][ /\ (mpc = "loop" /\ mpc' = "chapter_wait") =>
           /\ node = "idle" /\ state.error \in {None, ""}
           /\ state'.current_chapter_index = current_chapter_idx
           /\ current_chapter_idx = 0 => phase1 = state
           /\ current_chapter_idx > 0 =>
                /\ lastNode = "saveChapterOutput"
                /\ state.current_chapter_index = current_chapter_idx - 1
      /\ (mpc = "chapter_wait" /\ mpc' # mpc) =>
           IF node = "RAISED" \/ state.error \notin {None, ""}
           THEN mpc' = "exit_error" /\ current_chapter_idx' = current_chapter_idx
           ELSE current_chapter_idx' = current_chapter_idx + 1
      /\ mpc \in {"exit_error", "exit_done", "exit_stopped"} => mpc' = mpc
      /\ mpc \in {"loop", "chapter_wait", "ask"} =>
           current_chapter_idx' \in {current_chapter_idx, current_chapter_idx + 1} ]_vars

\* the loop was left on a failing second chapter
C35_Witness ==
  /\ mpc = "exit_error"
  /\ current_chapter_idx = 1
  /\ state.current_chapter_index = 1
  /\ Truthy(state.error)
  /\ lastNode = "finalOutput"

\* C36: in an invocation that starts with error and debug_llm_output unset,
\* debug_llm_output is set only in states where error is set: no step that
\* succeeded leaves a debug payload behind.
C36_DebugPayloadImpliesError ==
  state.debug_llm_output \notin {None, ""} => state.error \notin {None, ""}

\* a failed generation left the prompt as debug payload, with error set
C36_Witness ==
  /\ lastNode = "finalOutput"
  /\ errorAt = "sceneGenerator"
  /\ state.debug_llm_output = PromptDebug
  /\ Truthy(state.error)

\* the mapping the Character Bible step initialises for the profile of s
InitialCharacterStates(s) ==
  Some([ n \in {Val(s.character_profile).name} |->
           [mood |-> "neutral", location |-> "Unknown"] ])

\* C37: in a run of main.py in which no write failed, no node other than
\* userInput and characterBibleAgent changes character_states, and the mapping
\* saveChapterOutput persists at the end of every chapter is the mapping
\* {name: {mood: "neutral", location: "Unknown"}} of the Character Bible step.
C37_DynamicStateConstant ==
  [][ /\ (node \in Nodes \ {"userInput", "characterBibleAgent"}) =>
           state'.character_states = state.character_states
      /\ (node = "saveChapterOutput" /\ ~write_failed') =>
           /\ state.character_states = InitialCharacterStates(state)
           /\ disk_state'[state.current_chapter_index + 1] =
                Some(InitialCharacterStates(state)) ]_vars

\* the second chapter's mapping was persisted, unchanged, over an earlier
\* run's artifact
C37_Witness ==
  /\ lastNode = "saveChapterOutput"
  /\ ~write_failed
  /\ state.current_chapter_index = 1
  /\ state.character_profile # NoneObj
  /\ disk_state[2] = Some(InitialCharacterStates(state))
  /\ disk_state[2] # Some(StaleStates)

\* C38: inside a graph traversal chapterPlanner is entered only after a
\* successful prepareChapter, which has unset chapter_scene_outline, so the
\* planner never takes its skip but plans afresh with one model call, and a
\* scene outline supplied in the invocation's initial state is never reused.
C38_PlannerSkipNeverTaken ==
  /\ node = "chapterPlanner" =>
       /\ lastNode = "prepareChapter"
       /\ ~Truthy(state.error)
       /\ state.chapter_scene_outline = NoneObj
  /\ lastNode = "chapterPlanner" =>
       /\ input_state.chapter_scene_outline = NoneObj
       /\ calls = 1
  /\ "prepareChapter" \in ran /\ ~Truthy(state.error) /\ node # "chapterPlanner" =>
       /\ state.chapter_scene_outline # NoneObj
       /\ \A i \in 1..Len(Val(state.chapter_scene_outline)) :
            Val(state.chapter_scene_outline)[i] # StaleScene

C38_Witness ==
  /\ mpc = "resume"
  /\ lastNode = "prepareChapter"
  /\ input_state.chapter_scene_outline = Some(<<StaleScene>>)
  /\ node = "chapterPlanner"
  /\ state.chapter_scene_outline = NoneObj

\* the number of scenes the current chapter was planned into
PlannedScenes == Len(Val(state.chapter_scene_outline))

\* C39: every invocation enters at userInput, so the four Phase 1 nodes run
\* (as skips) in a resumed chapter too; an error-free invocation whose chapter
\* is planned into S scenes has run exactly 7 + 5*S nodes when it reaches END,
\* and it reaches END within the step limit of 100 only when S <= 18.
C39_StepCount ==
  /\ lastNode = "none" => (node = "userInput" /\ steps = 0)
  /\ node = "END" =>
       /\ {"userInput", "worldBibleAgent", "characterBibleAgent", "overallPlotAgent",
           "prepareChapter", "chapterPlanner", "saveChapterOutput"} \subseteq ran
       /\ steps = 7 + 5 * PlannedScenes
       /\ steps <= recursion_limit
       /\ PlannedScenes <= 18
  /\ node = "RAISED" => steps = recursion_limit

C39_Witness ==
  /\ mpc = "long"
  /\ node = "END"
  /\ PlannedScenes = 18
  /\ steps = 97

\* a chapter of 19 scenes is stopped by the step limit
C39_LimitWitness ==
  /\ mpc = "long"
  /\ node = "RAISED"
  /\ PlannedScenes = 19

\* the step count in the run of main.py, over every outcome of the nodes
C39_StepCountInRun ==
  (node = "END" /\ lastNode = "saveChapterOutput") =>
     steps = 7 + 5 * PlannedScenes

\* a JSON scene object with none of the summary keys and a non-empty
\* plot_points list
PlotPointOnly(raw) ==
  /\ raw.scene_summary = Absent /\ raw.scene_goal = Absent /\ raw.description = Absent
  /\ TruthyList(raw.plot_points)
\* a JSON scene object in which a summary key is present with "" or null
EmptySummaryKey(raw) ==
  \/ raw.scene_summary \in {"", None}
  \/ raw.scene_summary = Absent /\ raw.scene_goal \in {"", None}
  \/ raw.scene_summary = Absent /\ raw.scene_goal = Absent /\ raw.description \in {"", None}
\* prepare_scene_node takes the branch that combines title and plot points
TitlePrefixedBranch(item) == ~Truthy(item.summary) /\ TruthyList(item.plot_points)
\* the goal prepare_scene_node derives for the i-th scene of the outline in s
GoalOfScene(s, i) == prepare_scene_node([s EXCEPT !.current_scene_index = i - 1]).current_scene_goal
\* chapterPlanner has just accepted the array it was given
PlannerAccepted ==
  /\ lastNode = "chapterPlanner"
  /\ outcome # NoneObj
  /\ Val(outcome).kind = "array"
  /\ ~Truthy(state.error)
  /\ state.chapter_scene_outline # NoneObj

C40_EmptyJoinWitness ==
  /\ PlannerAccepted
  /\ PlotPointOnly(Val(outcome).items[1])
  /\ Val(outcome).items[1].title = "Confrontation"
  /\ TitlePrefixedBranch(Val(state.chapter_scene_outline)[1])
  /\ GoalOfScene(state, 1) = "Confrontation: "

====
